---- MODULE Spec2Model ----
(***************************************************************************)
(* A model of the pension-product recommendation core:                     *)
(*   src/data_processor.py  PensionProductAnalyzer   (catalog build)       *)
(*   src/recommender.py     PensionProductRecommender (scoring engine)     *)
(*                                                                         *)
(* Conventions                                                             *)
(*  - Chinese string literals of the source are written as ASCII tags; the *)
(*    comment next to each tag gives the source literal.                   *)
(*  - Scores are integers in units of 1/SCALE (score 1.0 = SCALE).         *)
(*    Weights are integers in units of 1/WSCALE (weight 1.0 = WSCALE).     *)
(*  - annual_income and investment_amount are integers in units of         *)
(*    0.1 wan yuan (1000 yuan); the source unit is wan yuan (10000 yuan).  *)
(*  - An optional integer is the integer itself, None (Python None) or     *)
(*    NaN (the float nan a pandas column holds for a missing number).      *)
(***************************************************************************)
EXTENDS Integers, Sequences, FiniteSets, TLC

VARIABLES
    df,                      \* analyzer.df: the raw rows (a sequence)
    processed_df,            \* analyzer.processed_df: NotProcessed or [rows |-> sequence of products]
    products_by_id,          \* analyzer.products_by_id: product_id -> product
    user_profiles,           \* recommender.user_profiles: user_id -> validated profile
    recommendation_history,  \* recommender.recommendation_history: user_id -> list of records
    weights,                 \* recommender.weights: key -> weight
    file,                    \* the history file on disk
    clock,                   \* the wall clock read by datetime.now()
    last                     \* the last call: its arguments and what it returned or raised

vars == <<df, processed_df, products_by_id, user_profiles, recommendation_history,
          weights, file, clock, last>>

(***************************************************************************)
(* Bounds of the model                                                     *)
(***************************************************************************)
\* the clock stops here: at most MaxClock recommendation records are ever made
MaxClock == 2
\* top_n ranges over -1 .. MaxTopN
MaxTopN == 2
\* generate_comparison_table is called with at most MaxIds product ids
MaxIds == 2
MaxAgeInput == 75
MaxTextAge == 100
MaxRows == 2
MaxPremiumStep == 100

(***************************************************************************)
(* Numeric representation                                                  *)
(***************************************************************************)
SCALE == 10000
WSCALE == 1000
\* Python None and float nan in an optional integer field
None == -1
NaN == -2

Abs(x) == IF x < 0 THEN -x ELSE x
Max(a, b) == IF a >= b THEN a ELSE b
Min(a, b) == IF a <= b THEN a ELSE b

\* n / d rounded to the nearest integer, halves to even (Python round()); d > 0
RoundDiv(n, d) ==
    LET q == n \div d
        r == n % d
    IN  IF 2 * r < d THEN q
        ELSE IF 2 * r > d THEN q + 1
        ELSE IF q % 2 = 0 THEN q ELSE q + 1

RECURSIVE SeqSum(_)
SeqSum(s) == IF s = <<>> THEN 0 ELSE Head(s) + SeqSum(Tail(s))

RECURSIVE SetToSeq(_)
\* some enumeration of a finite set
SetToSeq(S) == IF S = {} THEN <<>>
               ELSE LET x == CHOOSE y \in S : TRUE IN <<x>> \o SetToSeq(S \ {x})

RECURSIVE FnSum(_, _)
\* sum(f.values()) over the keys in D
FnSum(f, D) == IF D = {} THEN 0
               ELSE LET k == CHOOSE x \in D : TRUE IN f[k] + FnSum(f, D \ {k})

IsPrefix(s, t) == Len(s) <= Len(t) /\ SubSeq(t, 1, Len(s)) = s

(***************************************************************************)
(* Raw cells.  A raw cell is null (a missing value, pd.isna), or a text.   *)
(* A text is the placeholder '--', the empty string, or one of the text    *)
(* forms below; a text is given by its form and the numbers and keywords   *)
(* it holds, which is what the extractors' patterns read.                  *)
(*   kind: "null" | "dash" ('--') | "empty" ('') | "text"                  *)
(***************************************************************************)
IsPlaceholder(cell) == cell.kind \in {"null", "dash", "empty"}

\* keyword tags (source literal in the comment)
KW_NIANJINBAOXIAN == "nianjinbaoxian"      \* '年金保险'
KW_NIANJINXIAN == "nianjinxian"            \* '年金险'
KW_YANGLAO == "yanglao"                    \* '养老'
KW_TUIXIUJIN == "tuixiujin"                \* '退休金'
KW_YANGLAONIANJIN == "yanglaonianjin"      \* '养老年金'
KW_LIANGQUANBAOXIAN == "liangquanbaoxian"  \* '两全保险'
KW_LIANGQUANXIAN == "liangquanxian"        \* '两全险'
KW_WANNENGXING == "wannengxing"            \* '万能型'
KW_WANNENGXIAN == "wannengxian"            \* '万能险'
KW_FENHONGXING == "fenhongxing"            \* '分红型'
KW_FENHONGXIAN == "fenhongxian"            \* '分红险'
KW_TUANTI == "tuanti"                      \* '团体'
KW_TUANTINIANJIN == "tuantinianjin"        \* '团体年金'
KW_TUANTIYANGLAO == "tuantiyanglao"        \* '团体养老'
KW_ZHONGSHENSHOUXIAN == "zhongshenshouxian" \* '终身寿险'
KW_FUJIA == "fujia"                        \* '附加'
KW_NIANJIN == "nianjin"                    \* '年金'
KW_LIANGQUAN == "liangquan"                \* '两全'
KW_TOULIANXIAN == "toulianxian"            \* '投连险'
KW_TOUZILIANJIE == "touzilianjie"          \* '投资连结'
KW_BAOBEN == "baoben"                      \* '保本'
KW_BAOZHENG == "baozheng"                  \* '保证'

\* insurance types
T_ANNUITY == "annuity"                     \* '年金保险'
T_PENSION == "pension_annuity"             \* '养老年金'
T_ENDOWMENT == "endowment"                 \* '两全保险'
T_UNIVERSAL == "universal"                 \* '万能型'
T_PARTICIPATING == "participating"         \* '分红型'
T_GROUP == "group"                         \* '团体保险'
T_WHOLELIFE == "whole_life"                \* '终身寿险'
T_RIDER == "rider"                         \* '附加险'
T_OTHER == "other"                         \* '其他'
T_UNKNOWN == "unknown"                     \* '未知'

\* risk levels: '低', '中低', '中', '中高', '高'
RiskLevels == {"low", "mid_low", "mid", "mid_high", "high"}
\* social security types: '城镇职工', '城乡居民', '无', '其他'
SocialSecurityTypes == {"employee", "resident", "none", "other"}

\* payment types: '趸交' lump_sum, '期缴' installment, '月缴' monthly,
\* '季缴' quarterly, '半年缴' semi_annual, '未知' unknown
\* payment keywords: '趸交' dunjiao, '一次交清' yicijiaoqing, '趸缴' dunjiao2,
\* '一次性' yicixing, '期缴' qijiao, '年交' nianjiao, '分期' fenqi, '定期' dingqi,
\* '月交' yuejiao, '月缴' yuejiao2, '每月' meiyue, '季交' jijiao, '季缴' jijiao2,
\* '每季' meiji, '半年交' bannianjiao, '半年缴' bannianjiao2
payment_types == <<
    [type |-> "lump_sum",    keywords |-> <<"dunjiao", "yicijiaoqing", "dunjiao2", "yicixing">>],
    [type |-> "installment", keywords |-> <<"qijiao", "nianjiao", "fenqi", "dingqi">>],
    [type |-> "monthly",     keywords |-> <<"yuejiao", "yuejiao2", "meiyue">>],
    [type |-> "quarterly",   keywords |-> <<"jijiao", "jijiao2", "meiji">>],
    [type |-> "semi_annual", keywords |-> <<"bannianjiao", "bannianjiao2">> ] >>

\* the keyword -> category table of extract_insurance_type, in dict order
type_mapping == <<
    [type |-> T_ANNUITY,       keywords |-> <<KW_NIANJINBAOXIAN, KW_NIANJINXIAN>>],
    [type |-> T_PENSION,       keywords |-> <<KW_YANGLAO, KW_TUIXIUJIN, KW_YANGLAONIANJIN>>],
    [type |-> T_ENDOWMENT,     keywords |-> <<KW_LIANGQUANBAOXIAN, KW_LIANGQUANXIAN>>],
    [type |-> T_UNIVERSAL,     keywords |-> <<KW_WANNENGXING, KW_WANNENGXIAN>>],
    [type |-> T_PARTICIPATING, keywords |-> <<KW_FENHONGXING, KW_FENHONGXIAN>>],
    [type |-> T_GROUP,         keywords |-> <<KW_TUANTI, KW_TUANTINIANJIN, KW_TUANTIYANGLAO>>],
    [type |-> T_WHOLELIFE,     keywords |-> <<KW_ZHONGSHENSHOUXIAN>>],
    [type |-> T_RIDER,         keywords |-> <<KW_FUJIA>> ] >>

\* the first entry of an ordered keyword table one of whose keywords is in kws
\* (the nested for loops with return/break); dflt when none is
RECURSIVE FirstMatch(_, _, _)
FirstMatch(table, kws, dflt) ==
    IF table = <<>> THEN dflt
    ELSE IF \E i \in 1..Len(Head(table).keywords) : Head(table).keywords[i] \in kws
         THEN Head(table).type
         ELSE FirstMatch(Tail(table), kws, dflt)

\* the keywords a cell's text contains (none for a placeholder or a null:
\* str(nan) = 'nan', '--' and '' hold no keyword)
CellKeywords(cell) == IF cell.kind = "text" THEN cell.kw ELSE {}

extract_insurance_type(name) ==
    IF name.kind = "null" THEN T_UNKNOWN
    ELSE LET kws == CellKeywords(name)
             fallback == IF KW_NIANJIN \in kws THEN T_ANNUITY
                         ELSE IF KW_YANGLAO \in kws THEN T_PENSION
                         ELSE IF KW_LIANGQUAN \in kws THEN T_ENDOWMENT
                         ELSE T_OTHER
         IN  FirstMatch(type_mapping, kws, fallback)

extract_risk_level(product_name, features) ==
    LET name_str == CellKeywords(product_name)
        features_str == CellKeywords(features)
    IN  IF KW_WANNENGXING \in name_str \/ KW_WANNENGXIAN \in name_str THEN "mid_high"
        ELSE IF KW_FENHONGXING \in name_str \/ KW_FENHONGXIAN \in name_str THEN "mid"
        ELSE IF KW_TOULIANXIAN \in name_str \/ KW_TOUZILIANJIE \in name_str THEN "high"
        ELSE IF KW_LIANGQUANBAOXIAN \in name_str \/ KW_LIANGQUANXIAN \in name_str THEN "mid_low"
        ELSE IF KW_YANGLAONIANJIN \in name_str \/ KW_NIANJINBAOXIAN \in name_str
             THEN IF KW_BAOBEN \in features_str \/ KW_BAOZHENG \in features_str
                  THEN "low" ELSE "mid_low"
        ELSE IF KW_ZHONGSHENSHOUXIAN \in name_str THEN "low"
        ELSE "mid"

\* the feature vocabulary, in source order:
\* '养老','退休','年金','生存金','养老金','祝寿金','分红','红利','收益','增值','保本','保证',
\* '灵活','多种选择','领取灵活','缴费灵活','保障','身故','全残','意外','医疗保障',
\* '长期','短期','终身','定期','团体','企业','员工福利','累积生息','复利','利息'
keywords == <<
    "yanglao", "tuixiu", "nianjin", "shengcunjin", "yanglaojin", "zhushoujin",
    "fenhong", "hongli", "shouyi", "zengzhi", "baoben", "baozheng",
    "linghuo", "duozhongxuanze", "lingqulinghuo", "jiaofeilinghuo",
    "baozhang", "shengu", "quancan", "yiwai", "yiliaobaozhang",
    "changqi", "duanqi", "zhongshen", "dingqi",
    "tuanti", "qiye", "yuangongfuli",
    "leijishengxi", "fuli", "lixi" >>

MaxFeatureKeywords == 10

RECURSIVE SelectPresent(_, _)
SelectPresent(vocab, kws) ==
    IF vocab = <<>> THEN <<>>
    ELSE (IF Head(vocab) \in kws THEN <<Head(vocab)>> ELSE <<>>)
         \o SelectPresent(Tail(vocab), kws)

extract_product_features(features_str) ==
    IF IsPlaceholder(features_str) THEN <<>>
    ELSE LET all == SelectPresent(keywords, features_str.kw)
         IN  SubSeq(all, 1, Min(Len(all), MaxFeatureKeywords))

(***************************************************************************)
(* extract_age_range.  Age text forms of the model:                        *)
(*   "range"    'A-B周岁'       (e.g. '18-55周岁')                           *)
(*   "above16"  '十六周岁以上'  (no digit in the text)                       *)
(*   "to"       'A周岁至B周岁'  (e.g. '18周岁至60周岁')                      *)
(* The result is <<min_age, max_age>>.                                     *)
(***************************************************************************)
ValidAgePair(lo, hi) == 0 <= lo /\ lo <= 100 /\ 0 <= hi /\ hi <= 100 /\ lo <= hi

NumDigits(n) == IF n < 10 THEN 1 ELSE IF n < 100 THEN 2 ELSE IF n < 1000 THEN 3 ELSE 4

extract_age_range(age_str) ==
    IF IsPlaceholder(age_str) THEN <<None, None>>
    ELSE IF age_str.form = "range" THEN
        \* patterns 1-3 need '至' or '出生满': no match.
        \* pattern 4 (\d+).*?(\d+)\s*周岁 gives (A, B); so does pattern 5
        IF ValidAgePair(age_str.a, age_str.b) THEN <<age_str.a, age_str.b>>
        \* pattern 6 (\d+)[\s\-]*岁 does not match ('周' stands before '岁').
        \* pattern 7 (\d+)\s*周岁 has one group: matches[0] is the string of B,
        \* and len(matches[0]) is its number of digits
        ELSE IF NumDigits(age_str.b) = 2
                /\ ValidAgePair(age_str.b \div 10, age_str.b % 10)
             THEN <<age_str.b \div 10, age_str.b % 10>>
        ELSE IF NumDigits(age_str.b) = 1 /\ age_str.b <= 100
             THEN <<age_str.b, age_str.b>>
        \* pattern 8 and the all-numbers fallback give (A, B) again: invalid
        ELSE <<None, None>>
    ELSE IF age_str.form = "to" THEN
        \* pattern 1 (\d+)[\s\-]*周岁.*至.*(\d+)[\s\-]*周岁: the greedy '.*' behind
        \* '至' takes every digit of B but the last, which is the second group
        IF ValidAgePair(age_str.a, age_str.b % 10) THEN <<age_str.a, age_str.b % 10>>
        \* patterns 2 and 3 do not match ('周' stands before '岁').
        \* pattern 4 (\d+).*?(\d+)\s*周岁: the lazy '.*?' gives (A, B)
        ELSE IF ValidAgePair(age_str.a, age_str.b) THEN <<age_str.a, age_str.b>>
        \* patterns 5 and 6 do not match.  pattern 7 (\d+)\s*周岁 has one group:
        \* matches[0] is the string of A, len(matches[0]) its number of digits
        ELSE IF NumDigits(age_str.a) = 2
                /\ ValidAgePair(age_str.a \div 10, age_str.a % 10)
             THEN <<age_str.a \div 10, age_str.a % 10>>
        ELSE IF NumDigits(age_str.a) = 1 /\ age_str.a <= 100
             THEN <<age_str.a, age_str.a>>
        \* pattern 8 does not match; the split at '至' and the all-numbers
        \* fallback give (A, B) again: invalid
        ELSE <<None, None>>
    ELSE \* "above16": no pattern matches; '十六周岁以上' in age_str
        <<16, None>>

(***************************************************************************)
(* extract_premium_info.  Premium text of the model: the payment keywords  *)
(* in pay (possibly none) and, when amount > 0, '每份保费<amount>元';       *)
(* no '年' in the text, so no payment period is found.                     *)
(***************************************************************************)
LumpSumDefault == 10000
InstallmentDefault == 1000

extract_premium_info(premium_str) ==
    IF IsPlaceholder(premium_str)
    THEN [payment_type |-> "unknown", min_amount |-> 0, periods |-> <<>>]
    ELSE LET ptype == FirstMatch(payment_types, premium_str.pay, "unknown")
             \* amount pattern 1 (\d+,?\d*)\s*元, kept when > 0
             found == IF premium_str.amount > 0 THEN premium_str.amount ELSE 0
             amount == IF found = 0
                       THEN (IF ptype = "lump_sum" THEN LumpSumDefault ELSE InstallmentDefault)
                       ELSE found
         IN  [payment_type |-> ptype, min_amount |-> amount, periods |-> <<>>]

(***************************************************************************)
(* extract_coverage_period.  Coverage text forms of the model:             *)
(*   "whole_life" '终身'    "to_age" '至A周岁'    "years" 'N年'             *)
(*   "to_years" '至N年' (with '至', no '岁')                                 *)
(*   "year_word" '一年' (with '年', no digit)                                *)
(* types: '终身' whole_life, '至特定年龄' to_age, '固定年限' fixed_term,     *)
(*        '未知' unknown                                                   *)
(***************************************************************************)
WholeLifeAge == 100
MaxCoverageAge == 120
MaxCoverageYears == 100

extract_coverage_period(period_str) ==
    IF IsPlaceholder(period_str)
    THEN [type |-> "unknown", age |-> None, years |-> None, description |-> ""]
    ELSE IF period_str.form = "whole_life"
    THEN [type |-> "whole_life", age |-> WholeLifeAge, years |-> None,
          description |-> period_str.label]
    ELSE IF period_str.form = "to_age"
    THEN \* age pattern 1 至.*?(\d+)\s*周岁; '至' in the text decides the type
         [type |-> "to_age",
          age |-> IF 0 <= period_str.n /\ period_str.n <= MaxCoverageAge
                  THEN period_str.n ELSE None,
          years |-> None, description |-> period_str.label]
    ELSE IF period_str.form = "to_years"
    THEN \* no age pattern matches; year pattern 1 (\d+)\s*年 sets the type when
         \* the years are valid, and only a type still '未知' is set by '至'
         IF 1 <= period_str.n /\ period_str.n <= MaxCoverageYears
         THEN [type |-> "fixed_term", age |-> None, years |-> period_str.n,
               description |-> period_str.label]
         ELSE [type |-> "to_age", age |-> None, years |-> None,
               description |-> period_str.label]
    ELSE IF period_str.form = "year_word"
    THEN \* no pattern matches; '年' in the text decides the type
         [type |-> "fixed_term", age |-> None, years |-> None,
          description |-> period_str.label]
    ELSE \* "years": year pattern 1 (\d+)\s*年; '年' in the text decides the type
         [type |-> "fixed_term", age |-> None,
          years |-> IF 1 <= period_str.n /\ period_str.n <= MaxCoverageYears
                    THEN period_str.n ELSE None,
          description |-> period_str.label]

_format_coverage_str(coverage_info) ==
    IF coverage_info.type = "whole_life" THEN "zhongshen baozhang"   \* '终身保障'
    ELSE IF coverage_info.type = "to_age" /\ coverage_info.age \notin {None, 0}
    THEN "baozhang zhi " \o ToString(coverage_info.age) \o " zhousui" \* '保障至N周岁'
    ELSE IF coverage_info.type = "fixed_term" /\ coverage_info.years \notin {None, 0}
    THEN "baozhang " \o ToString(coverage_info.years) \o " nian"      \* '保障N年'
    ELSE coverage_info.description

\* ToString of an optional age, '不限' ("buxian") when absent
AgeStr(a) == IF a = None THEN "buxian" ELSE ToString(a)

Pad3(n) == IF n < 10 THEN "00" \o ToString(n)
           ELSE IF n < 100 THEN "0" \o ToString(n) ELSE ToString(n)

RECURSIVE Grouped(_)
\* f"{n:,}": thousands separated by commas
Grouped(n) == IF n < 1000 THEN ToString(n)
              ELSE Grouped(n \div 1000) \o "," \o Pad3(n % 1000)

RECURSIVE JoinPeriods(_)
JoinPeriods(ps) == IF ps = <<>> THEN ""
                   ELSE IF Len(ps) = 1 THEN ToString(ps[1])
                   ELSE ToString(ps[1]) \o "," \o JoinPeriods(Tail(ps))

\* the processed_record of one raw row (process_data, the loop body)
processed_record(row) ==
    LET ages == extract_age_range(row.age)
        premium_info == extract_premium_info(row.premium)
        coverage_info == extract_coverage_period(row.coverage)
    IN  [product_id |-> row.code,
         product_name |-> row.name.label,
         insurance_company |-> row.company,
         min_age |-> ages[1],
         max_age |-> ages[2],
         age_range_str |-> AgeStr(ages[1]) \o "-" \o AgeStr(ages[2]) \o "sui",
         insurance_type |-> extract_insurance_type(row.name),
         payment_type |-> premium_info.payment_type,
         payment_periods |-> premium_info.periods,
         payment_periods_str |-> IF premium_info.periods # <<>>
                                 THEN JoinPeriods(premium_info.periods)
                                 ELSE "duozhong kexuan",              \* '多种可选'
         min_premium |-> premium_info.min_amount,
         min_premium_str |-> Grouped(premium_info.min_amount) \o "yuan",
         coverage_type |-> coverage_info.type,
         coverage_age |-> coverage_info.age,
         coverage_years |-> coverage_info.years,
         coverage_str |-> _format_coverage_str(coverage_info),
         sales_channel |-> row.channel,
         sales_scope |-> row.scope,
         risk_level |-> extract_risk_level(row.name, row.features),
         feature_keywords |-> extract_product_features(row.features)]

\* pd.DataFrame(processed_data): a column of optional integers that holds a
\* number becomes a float column, and its None cells become nan; a column
\* that holds only None keeps None
ColumnValue(records, col, v) ==
    IF v = None /\ \E i \in 1..Len(records) : records[i][col] # None
    THEN NaN ELSE v

OptionalColumns == {"min_age", "max_age", "coverage_age", "coverage_years"}

DataFrame(records) ==
    [i \in 1..Len(records) |->
        [c \in DOMAIN records[i] |->
            IF c \in OptionalColumns THEN ColumnValue(records, c, records[i][c])
            ELSE records[i][c]]]

\* _build_indexes: products_by_id[row['product_id']] = row.to_dict(), a later
\* row replacing an earlier one with the same id
_build_indexes(rows) ==
    [id \in {rows[i].product_id : i \in 1..Len(rows)} |->
        LET i == CHOOSE j \in 1..Len(rows) :
                    /\ rows[j].product_id = id
                    /\ \A k \in (j+1)..Len(rows) : rows[k].product_id # id
        IN  rows[i]]

\* analyzer.processed_df is None
NotProcessed == [built |-> FALSE, rows |-> <<>>]

(***************************************************************************)
(* PensionProductRecommender: weights and user profiles                    *)
(***************************************************************************)
_get_default_weights ==
    [age_match |-> 300, income_match |-> 200, risk_match |-> 200,
     retirement_match |-> 150, social_security_match |-> 100, investment_match |-> 50]

\* abs(total - 1.0) > 0.001 is the rejection test of set_weights
WeightTolerance == 1

\* set_weights with a tolerance of 0.1
WeightsAccepted_WideTolerance(w) == ~ (Abs(FnSum(w, DOMAIN w) - WSCALE) > 100 * WeightTolerance)

WeightsAccepted(w) == ~ (Abs(FnSum(w, DOMAIN w) - WSCALE) > WeightTolerance)

required_fields == <<"age", "annual_income", "risk_tolerance", "social_security_type">>

MinUsualAge == 18
MaxUsualAge == 70
DefaultRetirementAge == 60

\* the defaults of _validate_user_profile; '全国' quanguo, '长期' changqi,
\* '中等' zhongdeng, '良好' lianghao, '未婚无子女' weihun
ProfileDefaults(validated) ==
    [expected_retirement_age |-> DefaultRetirementAge,
     investment_amount |-> validated.annual_income \div 2,
     location |-> "quanguo",
     investment_horizon |-> "changqi",
     liquidity_needs |-> "zhongdeng",
     health_status |-> "lianghao",
     family_status |-> "weihun"]

\* _validate_user_profile without the replacement of an unrecognised risk_tolerance
_validate_user_profile_KeepsRisk(profile) ==
    IF \E i \in 1..Len(required_fields) : required_fields[i] \notin DOMAIN profile
    THEN [ok |-> FALSE, error |-> "ValueError: missing required field"]
    ELSE IF profile.annual_income < 0
    THEN [ok |-> FALSE, error |-> "ValueError: negative annual income"]
    ELSE LET adjusted ==
                 [k \in DOMAIN profile |->
                    IF k = "social_security_type" /\ profile[k] \notin SocialSecurityTypes
                    THEN "employee"
                    ELSE profile[k]]
             defaults == ProfileDefaults(adjusted)
         IN  [ok |-> TRUE,
              profile |-> [k \in DOMAIN adjusted \cup DOMAIN defaults |->
                              IF k \in DOMAIN adjusted THEN adjusted[k] ELSE defaults[k]]]

\* _validate_user_profile: [ok |-> FALSE, error] when it raises ValueError,
\* [ok |-> TRUE, profile] with the validated copy otherwise
_validate_user_profile(profile) ==
    IF \E i \in 1..Len(required_fields) : required_fields[i] \notin DOMAIN profile
    THEN [ok |-> FALSE, error |-> "ValueError: missing required field"]
    ELSE IF profile.annual_income < 0
    THEN [ok |-> FALSE, error |-> "ValueError: negative annual income"]
    ELSE LET adjusted ==
                 [k \in DOMAIN profile |->
                    IF k = "risk_tolerance" /\ profile[k] \notin RiskLevels THEN "mid"
                    ELSE IF k = "social_security_type" /\ profile[k] \notin SocialSecurityTypes
                         THEN "employee"
                    ELSE profile[k]]
             defaults == ProfileDefaults(adjusted)
         IN  [ok |-> TRUE,
              profile |-> [k \in DOMAIN adjusted \cup DOMAIN defaults |->
                              IF k \in DOMAIN adjusted THEN adjusted[k] ELSE defaults[k]]]

(***************************************************************************)
(* The six scoring functions.  A score is an integer in units of 1/SCALE.  *)
(***************************************************************************)
\* raised inside the scoring of one product
ZeroDivisionError == -1

AgeDecayYears == 20

\* 1.0 - distance / 20 without the floor at 0
OutsideAgeScore_NoFloor(distance) == SCALE - RoundDiv(distance * SCALE, AgeDecayYears)

\* max(0, 1.0 - distance / 20)
OutsideAgeScore(distance) == Max(0, SCALE - RoundDiv(distance * SCALE, AgeDecayYears))

_calculate_age_match_score(user_age, product_min_age, product_max_age) ==
    IF product_min_age = None /\ product_max_age = None THEN SCALE \div 2
    ELSE LET lo == IF product_min_age = None THEN 0 ELSE product_min_age
             hi == IF product_max_age = None THEN 100 ELSE product_max_age
         IN  IF lo # NaN /\ hi # NaN /\ lo <= user_age /\ user_age <= hi
             THEN IF hi - lo = 0 THEN SCALE
                  ELSE Max(0, SCALE - RoundDiv(Abs(2 * user_age - lo - hi) * SCALE,
                                               2 * (hi - lo)))
             \* a comparison with nan is False
             ELSE IF lo # NaN /\ user_age < lo THEN OutsideAgeScore(lo - user_age)
             \* distance = user_age - nan is nan, and max(0, nan) is 0
             ELSE IF hi = NaN THEN 0
             ELSE OutsideAgeScore(user_age - hi)

\* 15% of the income in yuan; the income is in units of 1000 yuan
ReasonablePremium(user_income, product_payment_type) ==
    IF product_payment_type = "lump_sum" THEN user_income * 300
    ELSE IF product_payment_type \in {"monthly", "quarterly"} THEN user_income * 180
    ELSE user_income * 150

_calculate_income_match_score(user_income, product_min_premium, product_payment_type) ==
    IF product_min_premium <= 0 THEN SCALE \div 2
    ELSE LET reasonable_premium == ReasonablePremium(user_income, product_payment_type)
         IN  IF product_min_premium <= reasonable_premium
             THEN IF 10 * product_min_premium <= 3 * reasonable_premium THEN SCALE
                  \* max(0.6, 1.0 - (ratio - 0.3) * 0.5)
                  ELSE Max((SCALE * 6) \div 10,
                           SCALE - RoundDiv((10 * product_min_premium - 3 * reasonable_premium)
                                              * (SCALE \div 20), reasonable_premium))
             ELSE IF reasonable_premium = 0 THEN ZeroDivisionError
                  \* max(0, 1.0 - (excess_ratio - 1.0) * 0.5)
                  ELSE Max(0, SCALE - RoundDiv((product_min_premium - reasonable_premium)
                                                 * (SCALE \div 2), reasonable_premium))

\* risk_levels.get(level, 1)
RiskLevel_DefaultLow(r) == CASE r = "low" -> 1
                             [] r = "mid_low" -> 2
                             [] r = "mid" -> 3
                             [] r = "mid_high" -> 4
                             [] r = "high" -> 5
                             [] OTHER -> 1

\* risk_levels.get(level, 3)
RiskLevel(r) == CASE r = "low" -> 1
                  [] r = "mid_low" -> 2
                  [] r = "mid" -> 3
                  [] r = "mid_high" -> 4
                  [] r = "high" -> 5
                  [] OTHER -> 3

_calculate_risk_match_score(user_risk, product_risk) ==
    LET diff == Abs(RiskLevel(user_risk) - RiskLevel(product_risk))
    IN  CASE diff = 0 -> SCALE
          [] diff = 1 -> (SCALE * 8) \div 10
          [] diff = 2 -> (SCALE * 5) \div 10
          [] diff = 3 -> (SCALE * 3) \div 10
          [] OTHER -> SCALE \div 10

_calculate_retirement_match_score(user_retirement_age, product_coverage_age, product_coverage_years) ==
    IF product_coverage_age = None /\ product_coverage_years = None THEN SCALE \div 2
    ELSE IF product_coverage_age # None
    THEN \* every comparison of a nan age_diff is False
         IF product_coverage_age = NaN THEN SCALE \div 10
         ELSE LET age_diff == Abs(product_coverage_age - user_retirement_age)
              IN  IF age_diff <= 5 THEN SCALE
                  ELSE IF age_diff <= 10 THEN (SCALE * 7) \div 10
                  ELSE IF age_diff <= 15 THEN (SCALE * 4) \div 10
                  ELSE SCALE \div 10
    ELSE IF product_coverage_years = NaN THEN (SCALE * 2) \div 10
         ELSE LET expected_coverage_years ==
                      IF user_retirement_age - 30 <= 0 THEN 20
                      ELSE user_retirement_age - 30
                  years_diff == Abs(product_coverage_years - expected_coverage_years)
              IN  IF years_diff <= 5 THEN (SCALE * 8) \div 10
                  ELSE IF years_diff <= 10 THEN (SCALE * 5) \div 10
                  ELSE (SCALE * 2) \div 10

\* kw in product_type, for the insurance types of extract_insurance_type
TypeContains(product_type, kw) ==
    CASE kw = "yanglao" -> product_type = T_PENSION                  \* '养老'
      [] kw = "nianjin" -> product_type \in {T_ANNUITY, T_PENSION}   \* '年金'
      [] kw = "fenhong" -> product_type = T_PARTICIPATING            \* '分红'
      [] kw = "wanneng" -> product_type = T_UNIVERSAL                \* '万能'
      [] OTHER -> FALSE

InList(x, list) == \E i \in 1..Len(list) : list[i] = x

_calculate_social_security_match_score(user_ss_type, product_type, product_features) ==
    IF user_ss_type = "none"
    THEN IF TypeContains(product_type, "yanglao") \/ TypeContains(product_type, "nianjin")
         THEN IF InList("baozheng", product_features) \/ InList("baoben", product_features)
              THEN SCALE ELSE (SCALE * 7) \div 10
         \* '医疗', '健康'
         ELSE IF InList("yiliao", product_features) \/ InList("jiankang", product_features)
              THEN (SCALE * 9) \div 10
              ELSE (SCALE * 3) \div 10
    ELSE IF user_ss_type = "resident"
    \* '补充', '附加'
    THEN IF InList("buchong", product_features) \/ InList("fujia", product_features)
         THEN (SCALE * 9) \div 10
         ELSE IF TypeContains(product_type, "yanglao") THEN (SCALE * 7) \div 10
         ELSE SCALE \div 2
    ELSE IF user_ss_type = "employee"
    THEN IF TypeContains(product_type, "fenhong") \/ TypeContains(product_type, "wanneng")
         THEN (SCALE * 8) \div 10
         ELSE IF TypeContains(product_type, "yanglao") THEN (SCALE * 6) \div 10
         ELSE (SCALE * 4) \div 10
    ELSE SCALE \div 2

\* the investment is in units of 1000 yuan
_calculate_investment_match_score(user_investment, product_min_premium) ==
    IF product_min_premium <= 0 THEN SCALE \div 2
    ELSE LET user_investment_yuan == user_investment * 1000
         IN  IF user_investment_yuan >= product_min_premium * 3 THEN SCALE
             ELSE IF user_investment_yuan >= product_min_premium
             THEN SCALE \div 2
                  + RoundDiv((user_investment_yuan - product_min_premium) * (SCALE \div 4),
                             product_min_premium)
             ELSE Max(SCALE \div 10,
                      RoundDiv(user_investment_yuan * (SCALE \div 2), product_min_premium))

(***************************************************************************)
(* get_recommendations: scoring, aggregation, ranking                      *)
(***************************************************************************)
\* key.replace('_match', '_score')
ScoreKey(key) ==
    CASE key = "age_match" -> "age_score"
      [] key = "income_match" -> "income_score"
      [] key = "risk_match" -> "risk_score"
      [] key = "retirement_match" -> "retirement_score"
      [] key = "social_security_match" -> "social_security_score"
      [] key = "investment_match" -> "investment_score"
      [] key = "ss_match" -> "ss_score"
      [] OTHER -> key

\* the scores dict of one product (lines 383-412)
Scores(user_profile, product) ==
    [age_score |-> _calculate_age_match_score(user_profile.age, product.min_age, product.max_age),
     income_score |-> _calculate_income_match_score(user_profile.annual_income, product.min_premium, product.payment_type),
     risk_score |-> _calculate_risk_match_score(user_profile.risk_tolerance, product.risk_level),
     retirement_score |-> _calculate_retirement_match_score(user_profile.expected_retirement_age, product.coverage_age, product.coverage_years),
     ss_score |-> _calculate_social_security_match_score(user_profile.social_security_type, product.insurance_type, product.feature_keywords),
     investment_score |-> _calculate_investment_match_score(user_profile.investment_amount, product.min_premium)]

\* an exception inside the try block: the product is skipped
ScoringRaises(user_profile, product) ==
    Scores(user_profile, product).income_score = ZeroDivisionError

RECURSIVE WeightedSum(_, _, _)
\* for key, weight in self.weights.items(): if score_key in scores: total += ...
WeightedSum(w, scores, keys) ==
    IF keys = {} THEN 0
    ELSE LET key == CHOOSE k \in keys : TRUE
         IN  (IF ScoreKey(key) \in DOMAIN scores THEN scores[ScoreKey(key)] * w[key] ELSE 0)
             + WeightedSum(w, scores, keys \ {key})

\* total_score, in units of 1/(WSCALE*SCALE)
total_score(w, scores) == WeightedSum(w, scores, DOMAIN w)

\* round(total_score * 100, 1), in units of 0.1 (percent)
match_score(total) == RoundDiv(total, (WSCALE * SCALE) \div 1000)

\* a truthy optional number: not None and not 0 (nan is truthy)
Truthy(v) == v # None /\ v # 0

\* the reasons with the generic ones added below three reasons
_generate_recommendation_reasons_FillsBelowThree(scores, product, user_profile) ==
    LET age_r == IF scores.age_score >= (SCALE * 8) \div 10 THEN <<"age_very_suitable">>
                 ELSE IF scores.age_score >= (SCALE * 6) \div 10 THEN <<"age_in_range">>
                 ELSE <<>>
        income_r == IF scores.income_score >= (SCALE * 8) \div 10 THEN <<"premium_affordable">>
                    ELSE IF scores.income_score >= (SCALE * 6) \div 10 THEN <<"premium_matches_income">>
                    ELSE <<>>
        risk_r == IF scores.risk_score >= (SCALE * 8) \div 10 THEN <<"risk_matches">> ELSE <<>>
        retirement_r == IF scores.retirement_score >= (SCALE * 7) \div 10
                        THEN IF Truthy(product.coverage_age) THEN <<"coverage_to_age">>
                             ELSE IF Truthy(product.coverage_years) THEN <<"coverage_years">>
                             ELSE <<>>
                        ELSE <<>>
        ss_r == IF scores.ss_score >= (SCALE * 8) \div 10
                THEN IF user_profile.social_security_type = "none"
                     THEN <<"fits_no_social_security">>
                     ELSE <<"fits_social_security_type">>
                ELSE <<>>
        reasons == age_r \o income_r \o risk_r \o retirement_r \o ss_r
        generic == IF Len(reasons) < 3
                   THEN (IF TypeContains(product.insurance_type, "yanglao")
                         THEN <<"pension_product">> ELSE <<>>)
                        \o (IF product.risk_level = "low" THEN <<"low_risk_product">> ELSE <<>>)
                        \o (IF TypeContains(product.insurance_type, "fenhong")
                            THEN <<"participating_product">> ELSE <<>>)
                   ELSE <<>>
        all == reasons \o generic
    IN  SubSeq(all, 1, Min(Len(all), 3))

_generate_recommendation_reasons(scores, product, user_profile) ==
    LET age_r == IF scores.age_score >= (SCALE * 8) \div 10 THEN <<"age_very_suitable">>
                 ELSE IF scores.age_score >= (SCALE * 6) \div 10 THEN <<"age_in_range">>
                 ELSE <<>>
        income_r == IF scores.income_score >= (SCALE * 8) \div 10 THEN <<"premium_affordable">>
                    ELSE IF scores.income_score >= (SCALE * 6) \div 10 THEN <<"premium_matches_income">>
                    ELSE <<>>
        risk_r == IF scores.risk_score >= (SCALE * 8) \div 10 THEN <<"risk_matches">> ELSE <<>>
        retirement_r == IF scores.retirement_score >= (SCALE * 7) \div 10
                        THEN IF Truthy(product.coverage_age) THEN <<"coverage_to_age">>
                             ELSE IF Truthy(product.coverage_years) THEN <<"coverage_years">>
                             ELSE <<>>
                        ELSE <<>>
        ss_r == IF scores.ss_score >= (SCALE * 8) \div 10
                THEN IF user_profile.social_security_type = "none"
                     THEN <<"fits_no_social_security">>
                     ELSE <<"fits_social_security_type">>
                ELSE <<>>
        reasons == age_r \o income_r \o risk_r \o retirement_r \o ss_r
        generic == IF Len(reasons) < 2
                   THEN (IF TypeContains(product.insurance_type, "yanglao")
                         THEN <<"pension_product">> ELSE <<>>)
                        \o (IF product.risk_level = "low" THEN <<"low_risk_product">> ELSE <<>>)
                        \o (IF TypeContains(product.insurance_type, "fenhong")
                            THEN <<"participating_product">> ELSE <<>>)
                   ELSE <<>>
        all == reasons \o generic
    IN  SubSeq(all, 1, Min(Len(all), 3))

\* the recommendation dict of one product (lines 425-439)
recommendation(user_profile, product, w) ==
    LET scores == Scores(user_profile, product)
    IN  [product_id |-> product.product_id,
         product_name |-> product.product_name,
         insurance_company |-> product.insurance_company,
         match_score |-> match_score(total_score(w, scores)),
         age_range |-> product.age_range_str,
         insurance_type |-> product.insurance_type,
         payment_type |-> product.payment_type,
         min_premium |-> product.min_premium_str,
         risk_level |-> product.risk_level,
         coverage |-> product.coverage_str,
         recommendation_reasons |-> _generate_recommendation_reasons(scores, product, user_profile),
         detailed_scores |-> [k \in DOMAIN scores |-> RoundDiv(scores[k], SCALE \div 1000)],
         product_details |-> product]

RECURSIVE scored_products(_, _, _)
\* the loop over products_df.iterrows()
scored_products(user_profile, products, w) ==
    IF products = <<>> THEN <<>>
    ELSE (IF ScoringRaises(user_profile, Head(products)) THEN <<>>
          ELSE <<recommendation(user_profile, Head(products), w)>>)
         \o scored_products(user_profile, Tail(products), w)

RECURSIVE InsertByScore(_, _)
\* e placed behind every element whose match_score is >= its own
InsertByScore(sorted, e) ==
    IF sorted = <<>> THEN <<e>>
    ELSE IF Head(sorted).match_score >= e.match_score
         THEN <<Head(sorted)>> \o InsertByScore(Tail(sorted), e)
         ELSE <<e>> \o sorted

RECURSIVE SortByScore(_)
\* list.sort(key=match_score, reverse=True): stable, descending
SortByScore(list) ==
    IF list = <<>> THEN <<>>
    ELSE InsertByScore(SortByScore(SubSeq(list, 1, Len(list) - 1)), list[Len(list)])

\* list[:n]
Slice(list, n) ==
    IF n >= 0 THEN SubSeq(list, 1, Min(n, Len(list)))
    ELSE SubSeq(list, 1, Max(0, Len(list) + n))

\* the criteria keys _filter_products reads
CriteriaKeys == {"insurance_type", "risk_level", "payment_type", "insurance_company",
                 "min_age", "max_age", "max_premium"}

\* a comparison of a column value with a number: False for None and nan
IsNumber(v) == v # None /\ v # NaN

Passes(row, criteria) ==
    /\ "insurance_type" \in DOMAIN criteria => row.insurance_type = criteria.insurance_type
    /\ "risk_level" \in DOMAIN criteria => row.risk_level = criteria.risk_level
    /\ "payment_type" \in DOMAIN criteria => row.payment_type = criteria.payment_type
    /\ "insurance_company" \in DOMAIN criteria => row.insurance_company = criteria.insurance_company
    /\ "min_age" \in DOMAIN criteria => IsNumber(row.min_age) /\ row.min_age <= criteria.min_age
    /\ "max_age" \in DOMAIN criteria => IsNumber(row.max_age) /\ row.max_age >= criteria.max_age
    /\ "max_premium" \in DOMAIN criteria => row.min_premium <= criteria.max_premium

\* df[column] on the frame built from no record (no columns) raises KeyError
FilterRaises(rows, criteria) == rows = <<>> /\ DOMAIN criteria \cap CriteriaKeys # {}

_filter_products(rows, criteria) ==
    LET Keep(row) == Passes(row, criteria)
    IN  SelectSeq(rows, Keep)

(***************************************************************************)
(* State, results and the history file                                     *)
(***************************************************************************)
\* an empty dict
EmptyDict == [k \in {} |-> 0]

\* d[k] = v
Put(d, k, v) == [x \in DOMAIN d \cup {k} |-> IF x = k THEN v ELSE d[x]]

\* what a call returned or raised; the fields a call does not set keep these values
NoResult ==
    [op |-> "none", user_id |-> "", top_n |-> 0, filtered |-> FALSE,
     raised |-> "", error |-> "", returned |-> FALSE,
     recommendations |-> <<>>, recommendation_count |-> 0, total_products_evaluated |-> 0,
     profile |-> EmptyDict, product_ids |-> <<>>, table |-> <<>>,
     fresh_history |-> EmptyDict, input |-> EmptyDict, value |-> None]

\* json.dump(self.recommendation_history): an object with one member per user id,
\* each value the array of that user's records
JsonDump(history) == {[key |-> k, value |-> history[k]] : k \in DOMAIN history}

\* json.load losing the members whose array is empty
JsonLoad_DropsEmptyLists(doc) ==
    [k \in {m.key : m \in {x \in doc : x.value # <<>>}} |->
        (CHOOSE m \in doc : m.key = k).value]

\* json.load: the dict of the object's members
JsonLoad(doc) ==
    [k \in {m.key : m \in doc} |-> (CHOOSE m \in doc : m.key = k).value]

FileAbsent == [state |-> "absent", doc |-> {}]
FileCorrupt == [state |-> "corrupt", doc |-> {}]

(***************************************************************************)
(* Operations                                                              *)
(***************************************************************************)
\* PensionProductAnalyzer.process_data
ProcessData ==
    LET records == [i \in 1..Len(df) |-> processed_record(df[i])]
        frame == DataFrame(records)
    IN  /\ processed_df' = [built |-> TRUE, rows |-> frame]
        /\ products_by_id' = _build_indexes(frame)
        /\ last' = [NoResult EXCEPT !.op = "process_data", !.returned = TRUE]
        /\ UNCHANGED <<df, user_profiles, recommendation_history, weights, file, clock>>

\* PensionProductRecommender.set_weights
SetWeights(w) ==
    /\ IF WeightsAccepted(w)
       THEN /\ weights' = w
            /\ last' = [NoResult EXCEPT !.op = "set_weights", !.input = w, !.returned = TRUE]
       ELSE /\ weights' = weights
            /\ last' = [NoResult EXCEPT !.op = "set_weights", !.input = w,
                                        !.raised = "ValueError"]
    /\ UNCHANGED <<df, processed_df, products_by_id, user_profiles, recommendation_history,
                   file, clock>>

\* add_user_profile creating the history entry before it validates
AddUserProfile_HistoryBeforeValidate(user_id, profile) ==
    LET v == _validate_user_profile(profile)
    IN  /\ recommendation_history' =
               IF user_id \notin DOMAIN recommendation_history
               THEN Put(recommendation_history, user_id, <<>>)
               ELSE recommendation_history
        /\ IF v.ok
           THEN /\ user_profiles' = Put(user_profiles, user_id, v.profile)
                /\ last' = [NoResult EXCEPT !.op = "add_user_profile", !.user_id = user_id,
                                            !.input = profile,
                                            !.returned = TRUE, !.profile = v.profile]
           ELSE /\ UNCHANGED user_profiles
                /\ last' = [NoResult EXCEPT !.op = "add_user_profile", !.user_id = user_id,
                                            !.input = profile,
                                            !.raised = "ValueError", !.error = v.error]
        /\ UNCHANGED <<df, processed_df, products_by_id, weights, file, clock>>

\* add_user_profile emptying the history of the id on every registration
AddUserProfile_ResetsHistory(user_id, profile) ==
    LET v == _validate_user_profile(profile)
    IN  /\ IF v.ok
           THEN /\ user_profiles' = Put(user_profiles, user_id, v.profile)
                /\ recommendation_history' = Put(recommendation_history, user_id, <<>>)
                /\ last' = [NoResult EXCEPT !.op = "add_user_profile", !.user_id = user_id,
                                            !.input = profile,
                                            !.returned = TRUE, !.profile = v.profile]
           ELSE /\ UNCHANGED <<user_profiles, recommendation_history>>
                /\ last' = [NoResult EXCEPT !.op = "add_user_profile", !.user_id = user_id,
                                            !.input = profile,
                                            !.raised = "ValueError", !.error = v.error]
        /\ UNCHANGED <<df, processed_df, products_by_id, weights, file, clock>>

\* add_user_profile keeping the fields of the earlier profile that the new
\* input does not supply
AddUserProfile_MergesEarlier(user_id, profile) ==
    LET v == _validate_user_profile(profile)
        earlier == IF user_id \in DOMAIN user_profiles THEN user_profiles[user_id]
                   ELSE EmptyDict
    IN  /\ IF v.ok
           THEN /\ user_profiles' =
                       Put(user_profiles, user_id,
                           [k \in DOMAIN v.profile \cup DOMAIN earlier |->
                               IF k \in DOMAIN profile \/ k \notin DOMAIN earlier
                               THEN v.profile[k] ELSE earlier[k]])
                /\ recommendation_history' =
                       IF user_id \notin DOMAIN recommendation_history
                       THEN Put(recommendation_history, user_id, <<>>)
                       ELSE recommendation_history
                /\ last' = [NoResult EXCEPT !.op = "add_user_profile", !.user_id = user_id,
                                            !.input = profile,
                                            !.returned = TRUE, !.profile = v.profile]
           ELSE /\ UNCHANGED <<user_profiles, recommendation_history>>
                /\ last' = [NoResult EXCEPT !.op = "add_user_profile", !.user_id = user_id,
                                            !.input = profile,
                                            !.raised = "ValueError", !.error = v.error]
        /\ UNCHANGED <<df, processed_df, products_by_id, weights, file, clock>>

\* PensionProductRecommender.add_user_profile
AddUserProfile(user_id, profile) ==
    LET v == _validate_user_profile(profile)
    IN  /\ IF v.ok
           THEN /\ user_profiles' = Put(user_profiles, user_id, v.profile)
                /\ recommendation_history' =
                       IF user_id \notin DOMAIN recommendation_history
                       THEN Put(recommendation_history, user_id, <<>>)
                       ELSE recommendation_history
                /\ last' = [NoResult EXCEPT !.op = "add_user_profile", !.user_id = user_id,
                                            !.input = profile,
                                            !.returned = TRUE, !.profile = v.profile]
           ELSE /\ UNCHANGED <<user_profiles, recommendation_history>>
                /\ last' = [NoResult EXCEPT !.op = "add_user_profile", !.user_id = user_id,
                                            !.input = profile,
                                            !.raised = "ValueError", !.error = v.error]
        /\ UNCHANGED <<df, processed_df, products_by_id, weights, file, clock>>

\* PensionProductRecommender.get_recommendations
GetRecommendations(user_id, top_n, filter_criteria) ==
    LET call == [NoResult EXCEPT !.op = "get_recommendations", !.user_id = user_id,
                                 !.top_n = top_n, !.input = filter_criteria,
                                 !.filtered = (DOMAIN filter_criteria # {})]
        Fail(error) == /\ last' = [call EXCEPT !.error = error]
                       /\ UNCHANGED <<recommendation_history, clock>>
        Raise(exc) == /\ last' = [call EXCEPT !.raised = exc]
                      /\ UNCHANGED <<recommendation_history, clock>>
    IN  /\ IF user_id \notin DOMAIN user_profiles
           THEN Fail("user not found")                                \* '用户不存在'
           ELSE IF ~ processed_df.built
           THEN Fail("data not processed")                            \* '数据未处理'
           ELSE IF DOMAIN filter_criteria # {} /\ FilterRaises(processed_df.rows, filter_criteria)
           THEN Raise("KeyError")
           ELSE LET user_profile == user_profiles[user_id]
                    products_df == IF DOMAIN filter_criteria # {}
                                   THEN _filter_products(processed_df.rows, filter_criteria)
                                   ELSE processed_df.rows
                    scored == SortByScore(scored_products(user_profile, products_df, weights))
                    top_recommendations == Slice(scored, top_n)
                    recommendation_record ==
                        [timestamp |-> clock,
                         user_profile |-> user_profile,
                         recommendations |-> top_recommendations,
                         total_products_evaluated |-> Len(scored)]
                IN  IF products_df = <<>>
                    THEN Fail("no matching products")                 \* '没有找到符合条件的产品'
                    ELSE IF user_id \notin DOMAIN recommendation_history
                    THEN Raise("KeyError")
                    ELSE /\ clock < MaxClock
                         /\ clock' = clock + 1
                         /\ recommendation_history' =
                                [recommendation_history EXCEPT
                                    ![user_id] = Append(@, recommendation_record)]
                         /\ last' = [call EXCEPT
                                        !.returned = TRUE,
                                        !.total_products_evaluated = Len(scored),
                                        !.recommendation_count = Len(top_recommendations),
                                        !.recommendations = top_recommendations]
        /\ UNCHANGED <<df, processed_df, products_by_id, user_profiles, weights, file>>

\* PensionProductRecommender.clear_user_history
ClearUserHistory(user_id) ==
    /\ recommendation_history' =
           IF user_id \in DOMAIN recommendation_history
           THEN [recommendation_history EXCEPT ![user_id] = <<>>]
           ELSE recommendation_history
    /\ last' = [NoResult EXCEPT !.op = "clear_user_history", !.user_id = user_id,
                                !.returned = TRUE]
    /\ UNCHANGED <<df, processed_df, products_by_id, user_profiles, weights, file, clock>>

\* PensionProductRecommender.save_recommendation_history; io is what the file
\* system does: "ok", "open_fails" (open raises, the file is untouched) or
\* "write_fails" (the file is truncated and the dump does not complete)
SaveRecommendationHistory(io) ==
    /\ file' = IF io = "ok" THEN [state |-> "ok", doc |-> JsonDump(recommendation_history)]
               ELSE IF io = "write_fails" THEN FileCorrupt
               ELSE file
    /\ last' = [NoResult EXCEPT !.op = "save_recommendation_history",
                                !.returned = (io = "ok")]
    /\ UNCHANGED <<df, processed_df, products_by_id, user_profiles, recommendation_history,
                   weights, clock>>

\* a load that empties the history when the file cannot be read
LoadFile_ClearsOnFailure(f, current) ==
    IF f.state = "ok" THEN [ok |-> TRUE, history |-> JsonLoad(f.doc)]
    ELSE [ok |-> FALSE, history |-> EmptyDict]

\* what load_recommendation_history makes of the file: [ok, history]
LoadFile(f, current) ==
    IF f.state = "ok" THEN [ok |-> TRUE, history |-> JsonLoad(f.doc)]
    ELSE [ok |-> FALSE, history |-> current]

\* PensionProductRecommender.load_recommendation_history
LoadRecommendationHistory ==
    LET r == LoadFile(file, recommendation_history)
    IN  /\ recommendation_history' = r.history
        /\ last' = [NoResult EXCEPT !.op = "load_recommendation_history",
                                    !.returned = r.ok]
        /\ UNCHANGED <<df, processed_df, products_by_id, user_profiles, weights, file, clock>>

\* a fresh engine (PensionProductRecommender.__init__) loads the file
FreshEngineLoad ==
    LET r == LoadFile(file, EmptyDict)
    IN  /\ last' = [NoResult EXCEPT !.op = "fresh_engine_load", !.returned = r.ok,
                                    !.fresh_history = r.history]
        /\ UNCHANGED <<df, processed_df, products_by_id, user_profiles,
                       recommendation_history, weights, file, clock>>

\* the display fields of generate_comparison_table, in order, with their names:
\* '产品名称','保险公司','适合年龄','保险类型','缴费方式','缴费年限','最低保费',
\* '风险等级','保障期限','销售渠道','销售范围'
comparison_fields == <<
    "product_name", "insurance_company", "age_range_str", "insurance_type",
    "payment_type", "payment_periods_str", "min_premium_str", "risk_level",
    "coverage_str", "sales_channel", "sales_scope" >>

RECURSIVE comparison_data_Reversed(_, _)
\* the products the ids resolve to, each placed before the ones found earlier
comparison_data_Reversed(product_ids, by_id) ==
    IF product_ids = <<>> THEN <<>>
    ELSE comparison_data_Reversed(Tail(product_ids), by_id)
         \o (IF Head(product_ids) \in DOMAIN by_id THEN <<by_id[Head(product_ids)]>> ELSE <<>>)

RECURSIVE comparison_data(_, _)
\* the products the ids resolve to, in the order of the ids
comparison_data(product_ids, by_id) ==
    IF product_ids = <<>> THEN <<>>
    ELSE (IF Head(product_ids) \in DOMAIN by_id THEN <<by_id[Head(product_ids)]>> ELSE <<>>)
         \o comparison_data(Tail(product_ids), by_id)

\* the rows of the table: row.values[i] is row['product_<i>']
generate_comparison_table(product_ids, by_id) ==
    LET data == comparison_data(product_ids, by_id)
    IN  IF data = <<>> THEN <<>>
        ELSE [f \in 1..Len(comparison_fields) |->
                [feature |-> comparison_fields[f],
                 values |-> [i \in 1..Len(data) |-> data[i][comparison_fields[f]]]]]

\* PensionProductRecommender.generate_comparison_table
GenerateComparisonTable(product_ids) ==
    /\ last' = [NoResult EXCEPT !.op = "generate_comparison_table",
                                !.product_ids = product_ids, !.returned = TRUE,
                                !.table = generate_comparison_table(product_ids, products_by_id)]
    /\ UNCHANGED <<df, processed_df, products_by_id, user_profiles, recommendation_history,
                   weights, file, clock>>

\* PensionProductAnalyzer.get_product_details: the indexed record, or None
GetProductDetails(product_id) ==
    /\ last' = [NoResult EXCEPT
                    !.op = "get_product_details",
                    !.input = [product_id |-> product_id],
                    !.returned = TRUE,
                    !.value = IF product_id \in DOMAIN products_by_id
                              THEN products_by_id[product_id] ELSE None]
    /\ UNCHANGED <<df, processed_df, products_by_id, user_profiles, recommendation_history,
                   weights, file, clock>>

\* PensionProductAnalyzer.get_products_by_age: an empty frame before
\* process_data; processed_df['min_age'] raises KeyError on the frame built
\* from no record; else the rows whose mask is True (isna() holds for None
\* and for nan)
GetProductsByAge(age) ==
    LET call == [NoResult EXCEPT !.op = "get_products_by_age", !.input = [age |-> age]]
        mask(row) == /\ (~ IsNumber(row.min_age)) \/ row.min_age <= age
                     /\ (~ IsNumber(row.max_age)) \/ row.max_age >= age
    IN  /\ last' = IF ~ processed_df.built
                   THEN [call EXCEPT !.returned = TRUE, !.value = <<>>]
                   ELSE IF processed_df.rows = <<>>
                   THEN [call EXCEPT !.raised = "KeyError"]
                   ELSE [call EXCEPT !.returned = TRUE,
                                     !.value = SelectSeq(processed_df.rows, mask)]
        /\ UNCHANGED <<df, processed_df, products_by_id, user_profiles, recommendation_history,
                       weights, file, clock>>

\* self._filter_products(filter_criteria): an empty frame before process_data,
\* KeyError on the frame built from no record, else the rows that pass
FilterProducts(criteria) ==
    LET call == [NoResult EXCEPT !.op = "_filter_products", !.input = criteria,
                                 !.filtered = TRUE]
    IN  /\ last' = IF ~ processed_df.built
                   THEN [call EXCEPT !.returned = TRUE, !.value = <<>>]
                   ELSE IF FilterRaises(processed_df.rows, criteria)
                   THEN [call EXCEPT !.raised = "KeyError"]
                   ELSE [call EXCEPT !.returned = TRUE,
                                     !.value = _filter_products(processed_df.rows, criteria)]
        /\ UNCHANGED <<df, processed_df, products_by_id, user_profiles, recommendation_history,
                       weights, file, clock>>

(***************************************************************************)
(* A function called on its own.  last.input holds the name of the         *)
(* function and its arguments, last.op is "pending" before the call and    *)
(* the name of the function after it, last.value is what it returned.      *)
(***************************************************************************)
Pending(call) == [NoResult EXCEPT !.op = "pending", !.input = call]

IsPending(fn) == last.op = "pending" /\ last.input.fn = fn

Returned(v) ==
    /\ last' = [last EXCEPT !.op = last.input.fn, !.value = v]
    /\ UNCHANGED <<df, processed_df, products_by_id, user_profiles, recommendation_history,
                   weights, file, clock>>

\* self._calculate_age_match_score(user_age, product_min_age, product_max_age)
CallAgeMatchScore ==
    /\ IsPending("_calculate_age_match_score")
    /\ Returned(_calculate_age_match_score(last.input.user_age, last.input.product_min_age,
                                           last.input.product_max_age))

\* self._calculate_risk_match_score(user_risk, product_risk)
CallRiskMatchScore ==
    /\ IsPending("_calculate_risk_match_score")
    /\ Returned(_calculate_risk_match_score(last.input.user_risk, last.input.product_risk))

\* self._calculate_retirement_match_score(user_retirement_age,
\*     product_coverage_age, product_coverage_years)
CallRetirementMatchScore ==
    /\ IsPending("_calculate_retirement_match_score")
    /\ Returned(_calculate_retirement_match_score(last.input.user_retirement_age,
                    last.input.product_coverage_age, last.input.product_coverage_years))

\* self._calculate_income_match_score(user_income, product_min_premium,
\*     product_payment_type)
CallIncomeMatchScore ==
    /\ IsPending("_calculate_income_match_score")
    /\ Returned(_calculate_income_match_score(last.input.user_income,
                    last.input.product_min_premium, last.input.product_payment_type))

\* analyzer.extract_age_range(age_str)
CallExtractAgeRange ==
    IsPending("extract_age_range") /\ Returned(extract_age_range(last.input.arg))

\* analyzer.extract_insurance_type(name)
CallExtractInsuranceType ==
    IsPending("extract_insurance_type") /\ Returned(extract_insurance_type(last.input.arg))

\* analyzer.extract_premium_info(premium_str)
CallExtractPremiumInfo ==
    IsPending("extract_premium_info") /\ Returned(extract_premium_info(last.input.arg))

\* analyzer.extract_coverage_period(period_str)
CallExtractCoveragePeriod ==
    IsPending("extract_coverage_period") /\ Returned(extract_coverage_period(last.input.arg))

\* analyzer.extract_product_features(features_str)
CallExtractProductFeatures ==
    IsPending("extract_product_features") /\ Returned(extract_product_features(last.input.arg))

(***************************************************************************)
(* Inputs of the model                                                     *)
(***************************************************************************)
TextCell(label, kw) == [kind |-> "text", label |-> label, kw |-> kw]
Dash == [kind |-> "dash"]

\* 'X年金保险(分红型)', ages '20-50周岁', a feature text with '年金' and '保证',
\* '每份保费1000元', coverage '至60周岁'
RowA ==
    [code |-> "P1",
     name |-> TextCell("nianjin baoxian (fenhong xing)",
                       {KW_NIANJINBAOXIAN, KW_NIANJIN, KW_FENHONGXING}),
     age |-> [kind |-> "text", form |-> "range", a |-> 20, b |-> 50],
     features |-> TextCell("baozheng lingqu nianjin", {"nianjin", "baozheng"}),
     premium |-> [kind |-> "text", pay |-> {}, amount |-> 1000],
     company |-> "CompanyA", channel |-> "geren yingxiao", scope |-> "quanguo",
     coverage |-> [kind |-> "text", form |-> "to_age", n |-> 60, label |-> "zhi 60 zhousui"]]

\* 'X终身寿险(分红型)', ages '--', features '--', premium '趸交', coverage '终身'
RowB ==
    [code |-> "P2",
     name |-> TextCell("zhongshen shouxian (fenhong xing)",
                       {KW_ZHONGSHENSHOUXIAN, KW_FENHONGXING}),
     age |-> Dash,
     features |-> Dash,
     premium |-> [kind |-> "text", pay |-> {"dunjiao"}, amount |-> 0],
     company |-> "CompanyB", channel |-> "--", scope |-> "--",
     coverage |-> [kind |-> "text", form |-> "whole_life", n |-> 0, label |-> "zhongshen"]]

\* 'X养老两全保险', ages '十六周岁以上', a feature text with '养老', premium '--',
\* coverage '20年'
RowC ==
    [code |-> "P3",
     name |-> TextCell("yanglao liangquan baoxian",
                       {KW_YANGLAO, KW_LIANGQUANBAOXIAN, KW_LIANGQUAN}),
     age |-> [kind |-> "text", form |-> "above16", a |-> 0, b |-> 0],
     features |-> TextCell("yanglao guihua", {"yanglao"}),
     premium |-> Dash,
     company |-> "CompanyA", channel |-> "yinbao chanpin", scope |-> "quanguo",
     coverage |-> [kind |-> "text", form |-> "years", n |-> 20, label |-> "20 nian"]]

\* the raw tables an analyzer is built on
Catalog == <<RowA, RowB, RowC>>
DataFrames == { <<>>, <<RowB>>, Catalog }

Users == {"u1", "u2"}

\* age 35, income 20 wan, investment 10 wan
ProfileFull ==
    [age |-> 35, annual_income |-> 200, risk_tolerance |-> "mid",
     social_security_type |-> "none", expected_retirement_age |-> 60,
     investment_amount |-> 100]

\* age below 18, no income, values outside the risk and social security scales
ProfileOdd ==
    [age |-> 17, annual_income |-> 0, risk_tolerance |-> "aggressive",
     social_security_type |-> "student"]

ProfileNegativeIncome == [ProfileFull EXCEPT !.annual_income = -10]

\* p without the key k
Without(p, k) == [x \in DOMAIN p \ {k} |-> p[x]]

ProfileInputs ==
    {ProfileFull, ProfileOdd, ProfileNegativeIncome}
    \cup {Without(ProfileFull, required_fields[i]) : i \in 1..Len(required_fields)}

WeightsHigh == [age_match |-> 500, income_match |-> 600]        \* sum 1.1
WeightsLow == [age_match |-> 998]                               \* sum 0.998
WeightsEdge == [age_match |-> 1001]                             \* sum 1.001
WeightsNegative == [age_match |-> -500, income_match |-> 1500]  \* sum 1.0

WeightInputs == {_get_default_weights, WeightsHigh, WeightsLow, WeightsEdge, WeightsNegative}

TopNs == (0 - 1)..MaxTopN

NoCriteria == EmptyDict
FilterInputs == {NoCriteria, [risk_level |-> "mid"], [risk_level |-> "high"]}

Codes == {"P1", "P2", "P3", "ZZ"}

\* the lists of at most MaxIds product ids
IdLists == UNION {[1..n -> Codes] : n \in 0..MaxIds}

IoOutcomes == {"ok", "open_fails", "write_fails"}

\* the user ages of the calls of the age score
UserAges == 0..MaxAgeInput

\* the minimum premiums of the calls of the income score, in yuan
PremiumInputs == {1000 * k : k \in 0..MaxPremiumStep}

\* the calls of the four scoring functions
ScoreCalls ==
    LET \* a bound is absent or an age, and the bounds of a product are in order
        AgeBounds == {b \in {None, 0, 20, 40} \X {None, 40, 50, 100} :
                         b[1] = None \/ b[2] = None \/ b[1] <= b[2]}
        \* the five levels, '未知' and a value outside the scale
        RiskInputs == RiskLevels \cup {"unknown", "aggressive"}
        \* the default 60, the ages around it, and ages at and below 50
        RetirementAges == {25, 30, 31, 45, 50, 55, 60, 65, 70}
        \* absent, or an age at the thresholds from 60 and 65 on
        CoverageAges == {None, 60, 66, 71, 76, 100}
        \* absent, or a number of years at the thresholds
        CoverageYears == {None, 10, 15, 20, 26, 30, 31, 35, 40}
    IN  {[fn |-> "_calculate_age_match_score", user_age |-> a,
          product_min_age |-> b[1], product_max_age |-> b[2]] :
             a \in UserAges, b \in AgeBounds}
        \cup {[fn |-> "_calculate_risk_match_score", user_risk |-> u, product_risk |-> p] :
                 u \in RiskInputs, p \in RiskInputs}
        \cup {[fn |-> "_calculate_retirement_match_score", user_retirement_age |-> r,
               product_coverage_age |-> a, product_coverage_years |-> y] :
                 r \in RetirementAges, a \in CoverageAges, y \in CoverageYears}
        \* incomes of 0, 10 wan and 20 wan; '趸交', '月缴', '期缴' and '未知'
        \cup {[fn |-> "_calculate_income_match_score", user_income |-> i,
               product_min_premium |-> m, product_payment_type |-> t] :
                 i \in {0, 100, 200}, m \in PremiumInputs,
                 t \in {"lump_sum", "monthly", "installment", "unknown"}}

\* the calls of the five extractors: on a null cell, '--' and '', on the
\* cells of the catalog and on the age texts 'A周岁至B周岁'
ExtractCalls ==
    LET Placeholders == {[kind |-> "null"], Dash, [kind |-> "empty"]}
        AgeTexts ==
            {[kind |-> "text", form |-> "to", a |-> a, b |-> b] : a, b \in 0..MaxTextAge}
            \cup {Catalog[i].age : i \in 1..Len(Catalog)}
    IN  {[fn |-> "extract_age_range", arg |-> c] : c \in Placeholders \cup AgeTexts}
        \cup {[fn |-> "extract_insurance_type", arg |-> c] :
                 c \in Placeholders \cup {Catalog[i].name : i \in 1..Len(Catalog)}}
        \cup {[fn |-> "extract_premium_info", arg |-> c] :
                 c \in Placeholders \cup {Catalog[i].premium : i \in 1..Len(Catalog)}}
        \cup {[fn |-> "extract_coverage_period", arg |-> c] :
                 c \in Placeholders \cup {Catalog[i].coverage : i \in 1..Len(Catalog)}
                      \cup {[kind |-> "text", form |-> f, n |-> n, label |-> f] :
                               f \in {"whole_life", "to_age", "years", "to_years", "year_word"},
                               n \in {0, 1, 20, 60, 100, 101, 120, 121}}}
        \cup {[fn |-> "extract_product_features", arg |-> c] :
                 c \in Placeholders \cup {Catalog[i].features : i \in 1..Len(Catalog)}}

\* two products that differ in their code and in the premium only:
\* '每份保费40000元' and '每份保费39800元'
CloseCatalog ==
    <<[RowA EXCEPT !.code = "P4", !.premium.amount = 40000],
      [RowA EXCEPT !.code = "P5", !.premium.amount = 39800]>>

\* age 35, income 200 wan, investment 10 wan
ProfileWealthy == [ProfileFull EXCEPT !.annual_income = 2000]

\* the raw tables of at most MaxRows rows; two of the rows carry the same
\* '证券代码'
RawTables ==
    LET rows == {RowA, RowB, [RowB EXCEPT !.code = RowA.code]}
    IN  UNION {[1..n -> rows] : n \in 0..MaxRows}

(***************************************************************************)
(* Specifications                                                          *)
(***************************************************************************)
\* an analyzer on a raw table and a recommender on it, as constructed
Init ==
    /\ df \in DataFrames
    /\ processed_df = NotProcessed
    /\ products_by_id = EmptyDict
    /\ user_profiles = EmptyDict
    /\ recommendation_history = EmptyDict
    /\ weights = _get_default_weights
    /\ file = FileAbsent
    /\ clock = 0
    /\ last = NoResult

\* registration: two users, every profile input, recommendations on them
Next ==
    \/ ProcessData
    \/ \E w \in {_get_default_weights, WeightsHigh} : SetWeights(w)
    \/ \E u \in Users, p \in ProfileInputs : AddUserProfile(u, p)
    \/ \E u \in Users : GetRecommendations(u, MaxTopN, NoCriteria)
    \/ \E u \in Users : ClearUserHistory(u)

Spec == Init /\ [][Next]_vars

\* the weights: one user, every weight mapping
NextWeights ==
    \/ ProcessData
    \/ \E w \in WeightInputs : SetWeights(w)
    \/ \E p \in {ProfileFull, ProfileNegativeIncome} : AddUserProfile("u1", p)
    \/ GetRecommendations("u1", MaxTopN, NoCriteria)

SpecWeights == Init /\ [][NextWeights]_vars

\* scoring and ranking for one user: every weight mapping and every top_n
NextScore ==
    \/ ProcessData
    \/ \E w \in WeightInputs : SetWeights(w)
    \/ \E p \in {ProfileFull, ProfileOdd} : AddUserProfile("u1", p)
    \/ \E n \in TopNs, c \in FilterInputs : GetRecommendations("u1", n, c)

SpecScore == Init /\ [][NextScore]_vars

\* the application's start: process_data runs before the recommender is built
InitProcessed ==
    /\ df = Catalog
    /\ processed_df = [built |-> TRUE,
                       rows |-> DataFrame([i \in 1..Len(df) |-> processed_record(df[i])])]
    /\ products_by_id = _build_indexes(processed_df.rows)
    /\ user_profiles = EmptyDict
    /\ recommendation_history = EmptyDict
    /\ weights = _get_default_weights
    /\ file = FileAbsent
    /\ clock = 0
    /\ last = NoResult

\* the history of two users and the history file
NextHistory ==
    \/ \E w \in {_get_default_weights, WeightsHigh} : SetWeights(w)
    \/ \E u \in Users, p \in {ProfileFull, ProfileNegativeIncome} : AddUserProfile(u, p)
    \/ \E u \in Users : GetRecommendations(u, MaxTopN, NoCriteria)
    \/ \E u \in Users : ClearUserHistory(u)
    \/ \E io \in IoOutcomes : SaveRecommendationHistory(io)
    \/ LoadRecommendationHistory
    \/ FreshEngineLoad

SpecHistory == InitProcessed /\ [][NextHistory]_vars

\* the comparison table over the catalogs
NextTable ==
    \/ ProcessData
    \/ \E ids \in IdLists : GenerateComparisonTable(ids)

SpecTable == Init /\ [][NextTable]_vars

\* a recommender as constructed and one call about to be made
InitCall(calls) ==
    /\ df = Catalog
    /\ processed_df = NotProcessed
    /\ products_by_id = EmptyDict
    /\ user_profiles = EmptyDict
    /\ recommendation_history = EmptyDict
    /\ weights = _get_default_weights
    /\ file = FileAbsent
    /\ clock = 0
    /\ last \in {Pending(c) : c \in calls}

\* the scoring functions, each called on its own
InitFunctions == InitCall(ScoreCalls)

NextFunctions ==
    \/ CallAgeMatchScore
    \/ CallRiskMatchScore
    \/ CallRetirementMatchScore
    \/ CallIncomeMatchScore

SpecFunctions == InitFunctions /\ [][NextFunctions]_vars

\* an analyzer on any raw table, its index and the lookups in it
InitIndex ==
    /\ df \in RawTables
    /\ processed_df = NotProcessed
    /\ products_by_id = EmptyDict
    /\ user_profiles = EmptyDict
    /\ recommendation_history = EmptyDict
    /\ weights = _get_default_weights
    /\ file = FileAbsent
    /\ clock = 0
    /\ last = NoResult

NextIndex ==
    \/ ProcessData
    \/ \E id \in Codes : GetProductDetails(id)

SpecIndex == InitIndex /\ [][NextIndex]_vars

\* a recommender on the catalog of the two close products
InitOrder ==
    /\ df = CloseCatalog
    /\ processed_df = NotProcessed
    /\ products_by_id = EmptyDict
    /\ user_profiles = EmptyDict
    /\ recommendation_history = EmptyDict
    /\ weights = _get_default_weights
    /\ file = FileAbsent
    /\ clock = 0
    /\ last = NoResult

NextOrder ==
    \/ ProcessData
    \/ \E p \in {ProfileFull, ProfileWealthy} : AddUserProfile("u1", p)
    \/ \E n \in TopNs : GetRecommendations("u1", n, NoCriteria)
    \/ ClearUserHistory("u1")

SpecOrder == InitOrder /\ [][NextOrder]_vars

\* the extractors of the analyzer, each called on its own
InitExtract == InitCall(ExtractCalls)

NextExtract ==
    \/ CallExtractAgeRange
    \/ CallExtractInsuranceType
    \/ CallExtractPremiumInfo
    \/ CallExtractCoveragePeriod
    \/ CallExtractProductFeatures

SpecExtract == InitExtract /\ [][NextExtract]_vars

\* the two selections by age over the catalogs
NextAgeFilter ==
    \/ ProcessData
    \/ \E a \in UserAges : GetProductsByAge(a)
    \/ \E a \in UserAges : FilterProducts([min_age |-> a, max_age |-> a])

SpecAgeFilter == Init /\ [][NextAgeFilter]_vars

(***************************************************************************)
(* Properties of scoring and ranking (SpecScore)                           *)
(***************************************************************************)
\* the six dimensions: the weight key and the score key of each
SixDimensions == <<
    <<"age_match", "age_score">>, <<"income_match", "income_score">>,
    <<"risk_match", "risk_score">>, <<"retirement_match", "retirement_score">>,
    <<"social_security_match", "ss_score">>, <<"investment_match", "investment_score">> >>

\* weight[d], 0 for a dimension the mapping does not mention
WeightOf(w, key) == IF key \in DOMAIN w THEN w[key] ELSE 0

\* the sum over the six dimensions of weight[d] * score[d]
SixDimensionTotal(w, scores) ==
    SeqSum([d \in 1..Len(SixDimensions) |->
               WeightOf(w, SixDimensions[d][1]) * scores[SixDimensions[d][2]]])

\* the last call was a get_recommendations that returned a ranked list
Recommended == last.op = "get_recommendations" /\ last.returned

\* the scores of the i-th returned entry, recomputed from the stored profile
ScoresOfEntry(i) ==
    Scores(user_profiles[last.user_id], last.recommendations[i].product_details)

AllScoresAreOne(scores) == \A k \in DOMAIN scores : scores[k] = SCALE

AllScoresInUnitInterval(scores) == \A k \in DOMAIN scores : scores[k] \in 0..SCALE

\* C1: every entry returned by get_recommendations carries the match_score of
\* the sum over all six dimensions of weight[d] * score[d]; with the default
\* weights an entry whose six scores are all 1.0 has match_score 100.0
C1_TotalOverSixDimensions ==
    Recommended =>
        \A i \in 1..Len(last.recommendations) :
            /\ last.recommendations[i].match_score =
                   match_score(SixDimensionTotal(weights, ScoresOfEntry(i)))
            /\ (weights = _get_default_weights /\ AllScoresAreOne(ScoresOfEntry(i)))
                   => last.recommendations[i].match_score = 1000

\* C2: with weights the engine accepted that sum to 1.0, an entry whose six
\* scores are in [0,1] has a weighted total in [0,1] and a match_score in [0,100]
C2_TotalInUnitInterval ==
    (Recommended /\ FnSum(weights, DOMAIN weights) = WSCALE) =>
        \A i \in 1..Len(last.recommendations) :
            AllScoresInUnitInterval(ScoresOfEntry(i)) =>
                /\ total_score(weights, ScoresOfEntry(i)) \in 0..(WSCALE * SCALE)
                /\ last.recommendations[i].match_score \in 0..1000

\* C3: a successful get_recommendations returns at most top_n entries (none for
\* a negative top_n), in non-increasing order of match_score, and
\* recommendation_count is the length of the list
C3_AtMostTopNSorted ==
    Recommended =>
        /\ Len(last.recommendations) <= Max(last.top_n, 0)
        /\ \A i \in 1..(Len(last.recommendations) - 1) :
               last.recommendations[i].match_score >= last.recommendations[i + 1].match_score
        /\ last.recommendation_count = Len(last.recommendations)

(***************************************************************************)
(* Properties of get_recommendations' failures (SpecScore)                 *)
(***************************************************************************)
\* the candidate set of the last get_recommendations is empty: no catalog, or
\* no product of it passes the criteria
NoCandidates ==
    \/ ~ processed_df.built
    \/ (IF last.filtered THEN _filter_products(processed_df.rows, last.input)
        ELSE processed_df.rows) = <<>>

\* C9: get_recommendations never raises; it reports 'user not found' for an id
\* without a profile and, for a registered id, 'catalog empty' or 'no matching
\* products' when there is no candidate product; a failure returns an empty
\* list and changes neither user_profiles nor the history nor the weights
C9_FailuresAreErrorResults ==
    [][last'.op = "get_recommendations" =>
          /\ last'.raised = ""
          /\ last'.user_id \notin DOMAIN user_profiles => last'.error = "user not found"
          /\ (last'.user_id \in DOMAIN user_profiles /\ NoCandidates')
                 => last'.error \in {"data not processed", "no matching products"}
          /\ ~ last'.returned =>
                 /\ last'.recommendations = <<>>
                 /\ UNCHANGED <<user_profiles, recommendation_history, weights>>]_vars

(***************************************************************************)
(* Properties of registration (Spec)                                       *)
(***************************************************************************)
\* a required field is missing or the income is negative
InvalidProfile(p) ==
    \/ \E i \in 1..Len(required_fields) : required_fields[i] \notin DOMAIN p
    \/ p.annual_income < 0

\* C4: add_user_profile with a missing required field or a negative income
\* raises and changes neither user_profiles nor the history; a
\* get_recommendations that follows it for that id, unregistered before, reports
\* 'user not found' with an empty list
C4_InvalidProfileRejected ==
    [][/\ (last'.op = "add_user_profile" /\ InvalidProfile(last'.input))
            => /\ last'.raised = "ValueError"
               /\ ~ last'.returned
               /\ UNCHANGED <<user_profiles, recommendation_history>>
       /\ (/\ last.op = "add_user_profile" /\ InvalidProfile(last.input)
           /\ last.user_id \notin DOMAIN user_profiles
           /\ last'.op = "get_recommendations" /\ last'.user_id = last.user_id)
            => /\ last'.error = "user not found"
               /\ last'.recommendations = <<>>]_vars

\* a profile without annual_income was just rejected for an id that has no
\* profile, while another user is registered
W4_RejectedWhileOthersRegistered ==
    /\ last.op = "add_user_profile" /\ last.raised = "ValueError"
    /\ "annual_income" \notin DOMAIN last.input
    /\ last.user_id \notin DOMAIN user_profiles
    /\ last.user_id \notin DOMAIN recommendation_history
    /\ user_profiles # EmptyDict

\* the last call registered a profile that has the required fields and a
\* non-negative income
Registered == last.op = "add_user_profile" /\ ~ InvalidProfile(last.input)

EnumsInClosedSets(p) ==
    /\ p.risk_tolerance \in RiskLevels
    /\ p.social_security_type \in SocialSecurityTypes

WeightSum(w) == FnSum(w, DOMAIN w)

\* C5: set_weights with a sum above 1.001 or below 0.999 raises and leaves the
\* weights as they were; the weights of every reachable state sum to 1.0
\* within 0.001
C5_WeightsStayNormalized ==
    /\ [](Abs(WeightSum(weights) - WSCALE) <= 1)
    /\ [][(/\ last'.op = "set_weights"
           /\ (WeightSum(last'.input) > WSCALE + 1 \/ WeightSum(last'.input) < WSCALE - 1))
              => /\ last'.raised = "ValueError"
                 /\ ~ last'.returned
                 /\ weights' = weights]_vars

\* a mapping summing to 1.1 was just rejected while the engine holds weights
\* other than the default ones
W5_RejectedAfterChange ==
    /\ last.op = "set_weights" /\ last.raised = "ValueError"
    /\ WeightSum(last.input) > WSCALE + 1
    /\ weights # _get_default_weights

(***************************************************************************)
(* Properties of the history and its file (SpecHistory)                    *)
(***************************************************************************)
\* every user of h is a user of h2 with a list that extends the one in h
Appends(h, h2) ==
    \A u \in DOMAIN h : u \in DOMAIN h2 /\ IsPrefix(h[u], h2[u])

\* C6 as stated: across add_user_profile, get_recommendations, set_weights,
\* save_recommendation_history and load_recommendation_history every user's
\* history list before the call is a prefix of the list after it
C6_OnlyClearRemoves ==
    [][last'.op \in {"add_user_profile", "get_recommendations", "set_weights",
                     "save_recommendation_history", "load_recommendation_history"}
          => Appends(recommendation_history, recommendation_history')]_vars

\* C6 amended: across add_user_profile, get_recommendations, set_weights and
\* save_recommendation_history every user's history list before the call is a
\* prefix of the list after it; a successful load_recommendation_history
\* replaces the mapping by the content of the file and a failed one keeps it
C6_OnlyClearAndLoadRemove ==
    [][/\ last'.op \in {"add_user_profile", "get_recommendations", "set_weights",
                        "save_recommendation_history"}
            => Appends(recommendation_history, recommendation_history')
       /\ last'.op = "load_recommendation_history"
            => recommendation_history' =
                   IF last'.returned THEN JsonLoad(file.doc) ELSE recommendation_history]_vars

\* get_recommendations just appended a record behind an earlier one
W6_AppendedBehindEarlier ==
    /\ last.op = "get_recommendations" /\ last.returned
    /\ Len(recommendation_history[last.user_id]) >= 2

DisplayFields == <<
    "product_name", "insurance_company", "age_range_str", "insurance_type",
    "payment_type", "payment_periods_str", "min_premium_str", "risk_level",
    "coverage_str", "sales_channel", "sales_scope" >>

\* the ids of the last call that are in the catalog index, in input order
Resolvable ==
    LET InIndex(id) == id \in DOMAIN products_by_id
    IN  SelectSeq(last.product_ids, InIndex)

\* C8: generate_comparison_table returns, when an id resolves, 11 rows in the
\* order of the display fields, each with one value per resolvable id in input
\* order; it returns an empty list when no id resolves; it never raises and
\* changes nothing of the engine or the catalog
C8_ElevenRowsPerResolvedId ==
    /\ [](last.op = "generate_comparison_table" =>
             /\ last.returned /\ last.raised = ""
             /\ IF Resolvable = <<>> THEN last.table = <<>>
                ELSE /\ Len(last.table) = 11
                     /\ \A f \in 1..11 :
                            /\ last.table[f].feature = DisplayFields[f]
                            /\ Len(last.table[f].values) = Len(Resolvable)
                            /\ \A i \in 1..Len(Resolvable) :
                                   last.table[f].values[i] =
                                       products_by_id[Resolvable[i]][DisplayFields[f]])
    /\ [][last'.op = "generate_comparison_table" =>
             UNCHANGED <<df, processed_df, products_by_id, user_profiles,
                         recommendation_history, weights, file, clock>>]_vars

\* a table of two products was made from a list with an id the catalog lacks
W8_TableOfTwoWithUnresolved ==
    /\ last.op = "generate_comparison_table"
    /\ Len(last.product_ids) >= 2
    /\ \E i \in 1..Len(last.product_ids) : last.product_ids[i] \notin DOMAIN products_by_id
    /\ Len(last.table) = 11

(***************************************************************************)
(* Properties of the six scoring functions                                 *)
(***************************************************************************)
\* C11: for every stored (validated) profile, an annual_income or an
\* investment_amount of 0 included, and every product of the processed
\* catalog, each of the six scoring functions returns a value in [0,1] and
\* none raises
C11_ScoresInUnitInterval ==
    \A u \in DOMAIN user_profiles :
        \A i \in 1..Len(processed_df.rows) :
            AllScoresInUnitInterval(Scores(user_profiles[u], processed_df.rows[i]))

\* the last call was _calculate_age_match_score on its own
AgeCall == last.op = "_calculate_age_match_score"

\* the distance of age x from the centre of [lo, hi], doubled
CentreDistance(x, lo, hi) == Abs(2 * x - lo - hi)

\* the distance of age x outside [lo, hi]
OutsideDistance(x, lo, hi) == IF x < lo THEN lo - x ELSE x - hi

\* C12: age_score is 0.5 when both bounds are absent; otherwise an absent min
\* counts as 0 and an absent max as 100, the score is 1.0 when min = max = age,
\* inside [min, max] it does not increase with the distance from the centre,
\* and outside it is positive and strictly decreasing with the distance
\* outside below 20 years and 0 from 20 years on
C12_AgeScoreShape ==
    AgeCall =>
        LET a == last.input.user_age
            min_age == last.input.product_min_age
            max_age == last.input.product_max_age
            lo == IF min_age = None THEN 0 ELSE min_age
            hi == IF max_age = None THEN 100 ELSE max_age
            Inside(x) == lo <= x /\ x <= hi
        IN  IF min_age = None /\ max_age = None THEN last.value = SCALE \div 2
            ELSE /\ last.value = _calculate_age_match_score(a, lo, hi)
                 /\ (lo = hi /\ a = lo) => last.value = SCALE
                 /\ Inside(a) =>
                        \A b \in UserAges :
                            (Inside(b) /\ CentreDistance(b, lo, hi) >= CentreDistance(a, lo, hi))
                                => _calculate_age_match_score(b, min_age, max_age) <= last.value
                 /\ ~ Inside(a) =>
                        /\ OutsideDistance(a, lo, hi) >= 20 => last.value = 0
                        /\ OutsideDistance(a, lo, hi) < 20 =>
                               /\ last.value > 0
                               /\ \A b \in UserAges :
                                      (~ Inside(b) /\ OutsideDistance(b, lo, hi) > OutsideDistance(a, lo, hi))
                                          => _calculate_age_match_score(b, min_age, max_age) < last.value

\* an age 20 years or more above a range with an absent min was scored 0
W12_FarOutsideScoredZero ==
    /\ AgeCall
    /\ last.input.product_min_age = None /\ last.input.product_max_age # None
    /\ last.input.user_age - last.input.product_max_age >= 20
    /\ last.value = 0

\* the last call was _calculate_risk_match_score on its own
RiskCall == last.op = "_calculate_risk_match_score"

\* the levels low = 1 .. high = 5, any other value 3
LevelOf(r) ==
    IF r = "low" THEN 1 ELSE IF r = "mid_low" THEN 2 ELSE IF r = "mid_high" THEN 4
    ELSE IF r = "high" THEN 5 ELSE 3

\* the table of the score by level difference 0..4, in units of 1/SCALE
RiskTable == <<SCALE, (SCALE * 8) \div 10, (SCALE * 5) \div 10, (SCALE * 3) \div 10, SCALE \div 10>>

\* C13: risk_score(u, p) is the table entry 1.0, 0.8, 0.5, 0.3, 0.1 of the
\* difference |level(u) - level(p)|, an unrecognized value having level 3,
\* and risk_score(u, p) = risk_score(p, u)
C13_RiskScoreSymmetricTable ==
    RiskCall =>
        /\ last.value =
               RiskTable[Abs(LevelOf(last.input.user_risk) - LevelOf(last.input.product_risk)) + 1]
        /\ last.value =
               _calculate_risk_match_score(last.input.product_risk, last.input.user_risk)

\* a value outside the scale was scored against 'high': two levels apart, 0.5
W13_UnrecognizedAgainstHigh ==
    /\ RiskCall
    /\ last.input.user_risk \notin RiskLevels
    /\ last.input.product_risk = "high"
    /\ last.value = (SCALE * 5) \div 10

\* the last call was _calculate_retirement_match_score on its own
RetirementCall == last.op = "_calculate_retirement_match_score"

\* 1.0 / 0.7 / 0.4 / 0.1 for an age difference of at most 5 / 10 / 15 / more
CoverageAgeScore(age_diff) ==
    IF age_diff <= 5 THEN SCALE
    ELSE IF age_diff <= 10 THEN (SCALE * 7) \div 10
    ELSE IF age_diff <= 15 THEN (SCALE * 4) \div 10
    ELSE SCALE \div 10

\* 0.8 / 0.5 / 0.2 for a difference in years of at most 5 / 10 / more
CoverageYearsScore(years_diff) ==
    IF years_diff <= 5 THEN (SCALE * 8) \div 10
    ELSE IF years_diff <= 10 THEN (SCALE * 5) \div 10
    ELSE (SCALE * 2) \div 10

\* C20: retirement_score is 1.0 / 0.7 / 0.4 / 0.1 by |coverage_age - expected
\* age| when coverage_age is present, whatever coverage_years is; with only
\* coverage_years present it is 0.8 / 0.5 / 0.2 by |coverage_years - S| with
\* S = max(expected age - 30, 20), for every expected retirement age; and it
\* is 0.5 when both are absent
C20_RetirementScoreBySpan ==
    RetirementCall =>
        LET r == last.input.user_retirement_age
            coverage_age == last.input.product_coverage_age
            coverage_years == last.input.product_coverage_years
            S == Max(r - 30, 20)
        IN  IF coverage_age # None THEN last.value = CoverageAgeScore(Abs(coverage_age - r))
            ELSE IF coverage_years # None
                 THEN last.value = CoverageYearsScore(Abs(coverage_years - S))
                 ELSE last.value = SCALE \div 2

(***************************************************************************)
(* Properties of the extractors (SpecExtract)                              *)
(***************************************************************************)
\* C14: for all integers 0 <= X <= Y <= 100, extract_age_range on the text
\* 'X周岁至Y周岁' returns exactly (X, Y)
C14_ToFormReturnsBothAges ==
    (/\ last.op = "extract_age_range"
     /\ last.input.arg.kind = "text"
     /\ last.input.arg.form = "to"
     /\ 0 <= last.input.arg.a /\ last.input.arg.a <= last.input.arg.b
     /\ last.input.arg.b <= 100)
        => last.value = <<last.input.arg.a, last.input.arg.b>>

\* C15: on each placeholder ('--', '' and a null cell) extract_age_range
\* returns (None, None), extract_insurance_type 'other', extract_premium_info
\* the payment type unknown with no periods, extract_coverage_period the type
\* unknown with no age and no years, extract_product_features the empty list
C15_PlaceholdersGiveAbsentValues ==
    (last.op # "pending" /\ IsPlaceholder(last.input.arg)) =>
        CASE last.op = "extract_age_range" -> last.value = <<None, None>>
          [] last.op = "extract_insurance_type" -> last.value = T_OTHER
          [] last.op = "extract_premium_info" ->
                 last.value.payment_type = "unknown" /\ last.value.periods = <<>>
          [] last.op = "extract_coverage_period" ->
                 /\ last.value.type = "unknown"
                 /\ last.value.age = None /\ last.value.years = None
          [] last.op = "extract_product_features" -> last.value = <<>>

(***************************************************************************)
(* Properties of the product index (SpecIndex)                             *)
(***************************************************************************)
\* C16: after process_data on any sequence of raw rows no two products of
\* the catalog carry the same product_id, the index holds one entry per
\* listed product, get_product_details(id) returns the catalog record that
\* carries the id for every listed product and the absent marker for any
\* other id
C16_IndexMatchesCatalog ==
    processed_df.built =>
        LET rows == processed_df.rows
        IN  /\ \A i, j \in 1..Len(rows) :
                   i # j => rows[i].product_id # rows[j].product_id
            /\ Cardinality(DOMAIN products_by_id) = Len(rows)
            /\ \A i \in 1..Len(rows) :
                   /\ rows[i].product_id \in DOMAIN products_by_id
                   /\ products_by_id[rows[i].product_id] = rows[i]
            /\ last.op = "get_product_details" =>
                   IF \E i \in 1..Len(rows) : rows[i].product_id = last.input.product_id
                   THEN \E i \in 1..Len(rows) : last.value = rows[i]
                   ELSE last.value = None

(***************************************************************************)
(* Properties of loading and of re-registration                            *)
(***************************************************************************)
\* C17: load_recommendation_history on a missing or corrupt file returns
\* False without raising and leaves the history as it was; on a readable file
\* it returns True and the history is the mapping read from the file
C17_LoadKeepsOrReplaces ==
    [][last'.op = "load_recommendation_history" =>
          /\ last'.raised = ""
          /\ IF file.state \in {"absent", "corrupt"}
             THEN /\ ~ last'.returned
                  /\ recommendation_history' = recommendation_history
             ELSE /\ last'.returned
                  /\ recommendation_history' = JsonLoad(file.doc)]_vars

\* a load just failed on a corrupt file while a user has a record in the
\* history
W17_FailedLoadKeptRecords ==
    /\ last.op = "load_recommendation_history" /\ ~ last.returned
    /\ file.state = "corrupt"
    /\ \E u \in DOMAIN recommendation_history : recommendation_history[u] # <<>>

\* C18: add_user_profile on an id that is registered stores the validated new
\* profile only: every field of the stored profile is the one the new input
\* supplies (risk_tolerance and social_security_type after their replacement)
\* or the default computed from the new input; the history records of the id,
\* and the profile and the history of every other user, stay as they were
C18_ReregistrationReplaces ==
    [][(/\ last'.op = "add_user_profile" /\ last'.returned
        /\ last'.user_id \in DOMAIN user_profiles)
          => LET u == last'.user_id
                 new == last'.input
                 stored == user_profiles'[u]
             IN  /\ DOMAIN stored = DOMAIN new \cup DOMAIN ProfileDefaults(new)
                 /\ \A k \in DOMAIN new \ {"risk_tolerance", "social_security_type"} :
                        stored[k] = new[k]
                 /\ stored.risk_tolerance =
                        IF new.risk_tolerance \in RiskLevels THEN new.risk_tolerance ELSE "mid"
                 /\ stored.social_security_type =
                        IF new.social_security_type \in SocialSecurityTypes
                        THEN new.social_security_type ELSE "employee"
                 /\ \A k \in DOMAIN stored \ DOMAIN new : stored[k] = ProfileDefaults(new)[k]
                 /\ u \in DOMAIN recommendation_history'
                 /\ recommendation_history'[u] =
                        IF u \in DOMAIN recommendation_history
                        THEN recommendation_history[u] ELSE <<>>
                 /\ DOMAIN user_profiles' = DOMAIN user_profiles
                 /\ \A v \in DOMAIN user_profiles \ {u} : user_profiles'[v] = user_profiles[v]
                 /\ \A v \in DOMAIN recommendation_history \ {u} :
                        recommendation_history'[v] = recommendation_history[v]]_vars

\* an id that has a record in its history, so was registered before, was just
\* registered again with a profile that supplies no investment_amount, while
\* another user is registered: the stored amount is the default, half of the
\* new income
W18_ReregisteredWithFewerFields ==
    /\ last.op = "add_user_profile" /\ last.returned
    /\ recommendation_history[last.user_id] # <<>>
    /\ "investment_amount" \notin DOMAIN last.input
    /\ user_profiles[last.user_id].investment_amount = last.input.annual_income \div 2
    /\ \E v \in DOMAIN user_profiles : v # last.user_id

(***************************************************************************)
(* Properties of the order of the recommendations (SpecScore)              *)
(***************************************************************************)
\* the position in the catalog of the product of the i-th returned entry
CatalogPosition(i) ==
    CHOOSE p \in 1..Len(processed_df.rows) :
        processed_df.rows[p] = last.recommendations[i].product_details

\* the weighted total, before rounding, of the i-th returned entry
TotalOfEntry(i) == total_score(weights, ScoresOfEntry(i))

\* C19: of any two entries get_recommendations returns, the earlier one has a
\* weighted total, before rounding, greater than or equal to the later one's,
\* and two entries of equal total appear in the order of the catalog
C19_OrderedByUnroundedTotal ==
    Recommended =>
        \A i, j \in 1..Len(last.recommendations) :
            i < j => /\ TotalOfEntry(i) >= TotalOfEntry(j)
                     /\ TotalOfEntry(i) = TotalOfEntry(j)
                            => CatalogPosition(i) < CatalogPosition(j)

(***************************************************************************)
(* Properties of the income score and of the age score (SpecFunctions)     *)
(***************************************************************************)
\* the last call was _calculate_income_match_score on its own
IncomeCall == last.op = "_calculate_income_match_score"

\* R: 15% of the annual income in yuan, doubled for lump-sum, times 1.2 for
\* monthly and quarterly payment; the income is in units of 1000 yuan
ReasonableFigure(income, payment_type) ==
    IF payment_type = "lump_sum" THEN 2 * (income * 150)
    ELSE IF payment_type \in {"monthly", "quarterly"} THEN (12 * (income * 150)) \div 10
    ELSE income * 150

\* C21: for a positive income, income_score is 0.5 for min_premium <= 0, 1.0
\* for a premium of at most 0.3 R, falls linearly from 1.0 at 0.3 R to 0.6 at
\* premium = R, and for a premium above R decays with premium / R down to the
\* floor 0
C21_IncomeScoreByBands ==
    (IncomeCall /\ last.input.user_income > 0) =>
        LET premium == last.input.product_min_premium
            R == ReasonableFigure(last.input.user_income, last.input.product_payment_type)
        IN  IF premium <= 0 THEN last.value = SCALE \div 2
            ELSE IF 10 * premium <= 3 * R THEN last.value = SCALE
            ELSE IF premium <= R
                 THEN /\ last.value =
                             SCALE - RoundDiv(4 * (10 * premium - 3 * R) * SCALE, 70 * R)
                      /\ premium = R => last.value = (SCALE * 6) \div 10
            ELSE /\ last.value \in 0..SCALE
                 /\ \A m \in PremiumInputs :
                        m > premium =>
                            _calculate_income_match_score(last.input.user_income, m,
                                last.input.product_payment_type) <= last.value

\* C28: for a fixed positive income and a fixed payment type, income_score
\* does not increase with min_premium over the positive premiums
C28_IncomeScoreMonotone ==
    (IncomeCall /\ last.input.user_income > 0 /\ last.input.product_min_premium > 0) =>
        \A m \in PremiumInputs :
            m > last.input.product_min_premium =>
                _calculate_income_match_score(last.input.user_income, m,
                    last.input.product_payment_type) <= last.value

\* C29: for a product age range with at least one bound present, the
\* age_score of a user age inside the range is greater than or equal to the
\* age_score of every user age outside the range
C29_InsideAtLeastOutside ==
    (/\ AgeCall
     /\ ~ (last.input.product_min_age = None /\ last.input.product_max_age = None))
        => LET lo == IF last.input.product_min_age = None THEN 0
                     ELSE last.input.product_min_age
               hi == IF last.input.product_max_age = None THEN 100
                     ELSE last.input.product_max_age
           IN  (lo <= last.input.user_age /\ last.input.user_age <= hi) =>
                   \A b \in UserAges :
                       (b < lo \/ b > hi) =>
                           _calculate_age_match_score(b, last.input.product_min_age,
                               last.input.product_max_age) <= last.value

(***************************************************************************)
(* Properties of the coverage period and of the premium (SpecExtract)      *)
(***************************************************************************)
\* the coverage text holds '终身'
HoldsWholeLife(text) == text.form = "whole_life"

\* the coverage text holds '至'
HoldsTo(text) == text.form \in {"to_age", "to_years"}

\* an age in [0,120] stands in the coverage text before '周岁'
HoldsAge(text) == text.form = "to_age" /\ text.n \in 0..120

\* a number of years in [1,100] stands in the coverage text before '年'
HoldsYears(text) == text.form \in {"years", "to_years"} /\ text.n \in 1..100

\* C22: extract_coverage_period makes of a text that is no placeholder:
\* whole-life with age 100 when '终身' is present; otherwise to-specific-age
\* when an age was extracted or '至' is present; otherwise fixed-term when a
\* year count was extracted; otherwise unknown; an extracted age is in
\* [0,120] and an extracted year count in [1,100]
C22_CoverageClassification ==
    (last.op = "extract_coverage_period" /\ ~ IsPlaceholder(last.input.arg)) =>
        LET text == last.input.arg
        IN  /\ last.value.type =
                   IF HoldsWholeLife(text) THEN "whole_life"
                   ELSE IF HoldsAge(text) \/ HoldsTo(text) THEN "to_age"
                   ELSE IF HoldsYears(text) THEN "fixed_term"
                   ELSE "unknown"
            /\ HoldsWholeLife(text) => last.value.age = 100
            /\ last.value.age # None => last.value.age \in 0..120
            /\ last.value.years # None => last.value.years \in 1..100

\* C23: for a premium text, placeholder or not, from which no positive amount
\* is extracted, extract_premium_info returns min_amount 10000 when the
\* payment type is lump-sum and 1000 otherwise; an extracted positive amount
\* is returned as min_amount
C23_PremiumDefaults ==
    last.op = "extract_premium_info" =>
        IF IsPlaceholder(last.input.arg) \/ ~ (last.input.arg.amount > 0)
        THEN last.value.min_amount =
                 IF last.value.payment_type = "lump_sum" THEN 10000 ELSE 1000
        ELSE last.value.min_amount = last.input.arg.amount

(***************************************************************************)
(* Properties of the recommendation reasons (SpecScore)                    *)
(***************************************************************************)
\* the dimension a reason speaks of: 1 age, 2 income, 3 risk, 4 retirement,
\* 5 social security, 6 for a generic reason
ReasonDimension(reason) ==
    CASE reason \in {"age_very_suitable", "age_in_range"} -> 1
      [] reason \in {"premium_affordable", "premium_matches_income"} -> 2
      [] reason = "risk_matches" -> 3
      [] reason \in {"coverage_to_age", "coverage_years"} -> 4
      [] reason \in {"fits_no_social_security", "fits_social_security_type"} -> 5
      [] OTHER -> 6

\* the dimensions whose score reaches the threshold of its reason
AboveThreshold(scores) ==
    {d \in 1..5 :
        CASE d = 1 -> 10 * scores.age_score >= 6 * SCALE
          [] d = 2 -> 10 * scores.income_score >= 6 * SCALE
          [] d = 3 -> 10 * scores.risk_score >= 8 * SCALE
          [] d = 4 -> 10 * scores.retirement_score >= 7 * SCALE
          [] d = 5 -> 10 * scores.ss_score >= 8 * SCALE}

\* C24: every returned entry has at most 3 reasons; its threshold reasons are
\* those of the first dimensions, in the order age, income, risk, retirement,
\* social security, whose score reaches the threshold (0.6, 0.6, 0.8, 0.7,
\* 0.8); generic reasons stand behind them and only when fewer than 2
\* dimensions reach their threshold
C24_ReasonsOrderedAndCapped ==
    Recommended =>
        \A i \in 1..Len(last.recommendations) :
            LET rs == last.recommendations[i].recommendation_reasons
                T == AboveThreshold(ScoresOfEntry(i))
                shown == {ReasonDimension(rs[k]) : k \in 1..Len(rs)} \ {6}
            IN  /\ Len(rs) <= 3
                /\ \A a, b \in 1..Len(rs) :
                       a < b => \/ ReasonDimension(rs[a]) < ReasonDimension(rs[b])
                                \/ ReasonDimension(rs[b]) = 6
                /\ shown \subseteq T
                /\ Cardinality(shown) = Min(3, Cardinality(T))
                /\ \A d \in T \ shown : \A e \in shown : e < d
                /\ (\E k \in 1..Len(rs) : ReasonDimension(rs[k]) = 6) => Cardinality(T) < 2

\* an entry with exactly two threshold reasons and no generic one, for a
\* product that has a generic reason to offer, next to an entry capped at 3
W24_TwoReasonsNoFiller ==
    /\ Recommended
    /\ \E i \in 1..Len(last.recommendations) :
           /\ Len(last.recommendations[i].recommendation_reasons) = 2
           /\ Cardinality(AboveThreshold(ScoresOfEntry(i))) = 2
           /\ \/ last.recommendations[i].risk_level = "low"
              \/ last.recommendations[i].insurance_type \in {T_PENSION, T_PARTICIPATING}
    /\ \E i \in 1..Len(last.recommendations) :
           Cardinality(AboveThreshold(ScoresOfEntry(i))) > 3

(***************************************************************************)
(* Absent age bounds from the raw table to the returned scores (SpecScore) *)
(***************************************************************************)
\* the age bounds extract_age_range reads from the raw row of the i-th entry
RawAgesOfEntry(i) ==
    LET p == CHOOSE q \in 1..Len(df) : df[q].code = last.recommendations[i].product_id
    IN  extract_age_range(df[p].age)

\* C25: in every catalog, an entry whose raw age text gives no bound is
\* returned with age_score 0.5 in detailed_scores, and an entry whose raw age
\* text gives one bound is scored with the absent min as 0 and the absent max
\* as 100
C25_AbsentBoundsEndToEnd ==
    Recommended =>
        \A i \in 1..Len(last.recommendations) :
            LET ages == RawAgesOfEntry(i)
                shown == last.recommendations[i].detailed_scores.age_score
                lo == IF ages[1] = None THEN 0 ELSE ages[1]
                hi == IF ages[2] = None THEN 100 ELSE ages[2]
            IN  /\ (ages[1] = None /\ ages[2] = None) => shown = 500
                /\ ((ages[1] = None) # (ages[2] = None))
                       => shown = RoundDiv(_calculate_age_match_score(user_profiles[last.user_id].age, lo, hi), SCALE \div 1000)

(***************************************************************************)
(* Registered users and their history lists (SpecHistory)                  *)
(***************************************************************************)
\* C26: after any sequence of add_user_profile, get_recommendations,
\* clear_user_history, save and load, every user id with a registered profile
\* has a history list; get_recommendations for a registered user on the built
\* catalog does not raise, and when it returns, its record is the last of the
\* user's history
C26_RegisteredUsersHaveHistory ==
    /\ DOMAIN user_profiles \subseteq DOMAIN recommendation_history
    /\ (last.op = "get_recommendations" /\ last.user_id \in DOMAIN user_profiles)
           => /\ last.raised = ""
              /\ last.returned
                     => LET h == recommendation_history[last.user_id]
                        IN  /\ Len(h) >= 1
                            /\ h[Len(h)].recommendations = last.recommendations

(***************************************************************************)
(* The count of evaluated products (SpecScore)                             *)
(***************************************************************************)
\* the candidate products of the last get_recommendations call
CandidatesOfCall ==
    IF last.filtered THEN _filter_products(processed_df.rows, last.input)
    ELSE processed_df.rows

\* C27: in every successful get_recommendations, total_products_evaluated, in
\* the result and in the appended history record, is the number of candidate
\* products: the whole catalog without a filter, the filtered set otherwise
C27_EveryCandidateEvaluated ==
    Recommended =>
        LET h == recommendation_history[last.user_id]
        IN  /\ last.total_products_evaluated = Len(CandidatesOfCall)
            /\ h[Len(h)].total_products_evaluated = Len(CandidatesOfCall)

(***************************************************************************)
(* The two selections by age (SpecAgeFilter)                               *)
(***************************************************************************)
\* C30: on every built catalog and for every age a, get_products_by_age(a)
\* returns exactly the rows the generic filter keeps under the criteria
\* {min_age: a, max_age: a}, and the generic filter returns exactly the rows
\* of get_products_by_age(a): an absent bound is unbounded for both
C30_AgeFilterMatchesByAge ==
    /\ (last.op = "get_products_by_age" /\ last.returned /\ processed_df.built)
           => last.value = _filter_products(processed_df.rows,
                                            [min_age |-> last.input.age,
                                             max_age |-> last.input.age])
    /\ (last.op = "_filter_products" /\ last.returned /\ processed_df.built)
           => \A i \in 1..Len(processed_df.rows) :
                  LET row == processed_df.rows[i]
                      kept == \E k \in 1..Len(last.value) : last.value[k] = row
                  IN  kept <=> /\ row.min_age \in {None, NaN} \/ row.min_age <= last.input.min_age
                               /\ row.max_age \in {None, NaN} \/ row.max_age >= last.input.max_age
====
